---- MODULE Spec2Model ----
(***************************************************************************)
(* Model of the SwatchX backend: the authentication flow                   *)
(* (backend/app/routers/auth.py, backend/app/schemas/user.py,              *)
(* backend/app/models/user.py, backend/app/core/config.py) and the         *)
(* expense and reference-entity endpoints                                  *)
(* (backend/app/routers/expenses.py, backend/app/models/expense.py).       *)
(*                                                                         *)
(* Strings are sequences of one-character strings, so that lower() and     *)
(* strip() are computed character by character.  A bcrypt hash is the      *)
(* string "$2b" + salt + digest, the digest being an injective image of    *)
(* the plaintext.  A token is its claims plus an HMAC signature over       *)
(* them.  Time is counted in minutes.                                      *)
(***************************************************************************)
EXTENDS Integers, Sequences, FiniteSets, TLC

VARIABLES users, now, held, req, resp, sessions, store

vars == <<users, now, held, req, resp, sessions, store>>

(***************************************************************************)
(* Bounds of the model.                                                    *)
(***************************************************************************)
MaxTicks == 2
TickMinutes == 15

(***************************************************************************)
(* Strings.                                                                *)
(***************************************************************************)
NULL == <<"NULL">>

UpperChars ==
    <<"A", "B", "C", "D", "E", "F", "G", "H", "I", "J", "K", "L", "M",
      "N", "O", "P", "Q", "R", "S", "T", "U", "V", "W", "X", "Y", "Z">>
LowerChars ==
    <<"a", "b", "c", "d", "e", "f", "g", "h", "i", "j", "k", "l", "m",
      "n", "o", "p", "q", "r", "s", "t", "u", "v", "w", "x", "y", "z">>
DigitChars == {"0", "1", "2", "3", "4", "5", "6", "7", "8", "9"}
SpecialChars == {"@", "$", "!", "%", "*", "?", "&"}

IsUpper(c) == \E i \in 1..Len(UpperChars) : UpperChars[i] = c
IsLower(c) == \E i \in 1..Len(LowerChars) : LowerChars[i] = c

LowerChar(c) ==
    IF IsUpper(c)
    THEN LowerChars[CHOOSE i \in 1..Len(UpperChars) : UpperChars[i] = c]
    ELSE c

\* A signup or login path that forgets to call lower().
LowerForgotten(s) == s
Lower(s) == [i \in 1..Len(s) |-> LowerChar(s[i])]

RECURSIVE LStrip(_)
LStrip(s) == IF s # <<>> /\ Head(s) = " " THEN LStrip(Tail(s)) ELSE s

RECURSIVE RStrip(_)
RStrip(s) ==
    IF s # <<>> /\ s[Len(s)] = " " THEN RStrip(SubSeq(s, 1, Len(s) - 1)) ELSE s

Strip(s) == RStrip(LStrip(s))

Range(s) == {s[i] : i \in 1..Len(s)}

(***************************************************************************)
(* Request inputs: the concrete strings clients send.                      *)
(***************************************************************************)
EmailUpperA == <<"A", "@", "x", ".", "c", "o">>
EmailLowerA == <<"a", "@", "x", ".", "c", "o">>
EmailLowerB == <<"b", "@", "x", ".", "c", "o">>
EmailNoAt == <<"a", "x", ".", "c", "o">>

PwStrong1 == <<"S", "t", "r", "o", "n", "g", "1", "!">>
PwStrong2 == <<"S", "t", "r", "o", "n", "g", "2", "!">>
PwWeak == <<"w", "e", "a", "k">>
PwNoSpecial == <<"S", "t", "r", "o", "n", "g", "1", "2">>

Salts == {"s1", "s2"}

QPet == <<"P", "e", "t", " ", "n", "a", "m", "e", "?", "?">>
QPetUpper == <<"P", "E", "T", " ", "N", "A", "M", "E", "?", "?">>
QCity == <<"B", "o", "r", "n", " ", "c", "i", "t", "y", "?">>
QCar == <<"F", "i", "r", "s", "t", " ", "c", "a", "r", "?">>
QShort == <<"P", "e", "t", "?">>

AnsBlue == <<"B", "l", "u", "e">>
AnsRex == <<"R", "e", "x">>
AnsChicago == <<"C", "h", "i", "c", "a", "g", "o">>
AnsBlueLower == <<"b", "l", "u", "e">>
AnsRexPadded == <<" ", "R", "E", "X", " ">>
AnsChicagoLower == <<"c", "h", "i", "c", "a", "g", "o">>
AnsRed == <<"R", "e", "d">>

SQ(question, answer) ==
    [question |-> question, answer |-> answer, current_password |-> PwStrong1]

SetupValid == <<SQ(QPet, AnsBlue), SQ(QCity, AnsRex), SQ(QCar, AnsChicago)>>
SetupDuplicate == <<SQ(QPet, AnsBlue), SQ(QPetUpper, AnsRex), SQ(QCar, AnsChicago)>>
SetupTwo == <<SQ(QPet, AnsBlue), SQ(QCity, AnsRex)>>
SetupShort == <<SQ(QShort, AnsBlue), SQ(QCity, AnsRex), SQ(QCar, AnsChicago)>>

AnswersExact == <<AnsBlue, AnsRex, AnsChicago>>
AnswersVariant == <<AnsBlueLower, AnsRexPadded, AnsChicagoLower>>
AnswersWrong1 == <<AnsRed, AnsRex, AnsChicago>>
AnswersWrong2 == <<AnsBlue, AnsRed, AnsChicago>>
AnswersWrong3 == <<AnsBlue, AnsRex, AnsRed>>
AnswersSwapped == <<AnsRex, AnsBlue, AnsChicago>>
AnswersTwo == <<AnsBlue, AnsRex>>

\* The requests clients send, one tuple per request.
\* signup: <<email, password, confirm_password>>
SignupInputs ==
    {<<EmailLowerA, PwStrong1, PwStrong1>>,
     <<EmailUpperA, PwStrong1, PwStrong1>>,
     <<EmailUpperA, PwStrong2, PwStrong2>>,
     <<EmailNoAt, PwStrong1, PwStrong1>>,
     <<EmailLowerA, PwWeak, PwWeak>>,
     <<EmailLowerA, PwStrong1, PwStrong2>>}

\* login: <<username, password>>
LoginInputs ==
    {EmailUpperA, EmailLowerA, EmailLowerB} \X {PwStrong1, PwStrong2}

\* password change: <<current_password, new_password, confirm_password>>
ChangeInputs ==
    {<<PwStrong1, PwStrong2, PwStrong2>>,
     <<PwStrong2, PwStrong1, PwStrong1>>,
     <<PwStrong1, PwStrong1, PwStrong1>>,
     <<PwStrong1, PwWeak, PwWeak>>,
     <<PwStrong1, PwNoSpecial, PwNoSpecial>>,
     <<PwStrong1, PwStrong2, PwStrong1>>,
     <<PwWeak, PwStrong2, PwStrong2>>}

\* security-question setup and bulk update: the list of questions
SetupInputs == {SetupValid, SetupDuplicate, SetupTwo, SetupShort}
UpdateInputs == {SetupValid, SetupDuplicate}

\* individual update: <<question, answer, current_password, question_index>>
IndividualInputs ==
    {<<QPet, AnsRed, PwStrong1, 0>>,
     <<QPet, AnsRed, PwStrong2, 0>>,
     <<QPet, AnsRed, PwStrong1, 3>>,
     <<QShort, AnsRed, PwStrong1, 0>>}

ResetRequestInputs == {EmailUpperA, EmailLowerB, EmailNoAt}

\* reset-verify: <<email, answers, new_password, confirm_password>>
ResetInputs ==
    {<<EmailUpperA, AnswersExact, PwStrong2, PwStrong2>>,
     <<EmailLowerA, AnswersVariant, PwStrong2, PwStrong2>>,
     <<EmailLowerA, AnswersVariant, PwStrong1, PwStrong1>>,
     <<EmailLowerA, AnswersWrong1, PwStrong2, PwStrong2>>,
     <<EmailLowerA, AnswersWrong2, PwStrong2, PwStrong2>>,
     <<EmailLowerA, AnswersWrong3, PwStrong2, PwStrong2>>,
     <<EmailLowerA, AnswersSwapped, PwStrong2, PwStrong2>>,
     <<EmailLowerA, AnswersTwo, PwStrong2, PwStrong2>>,
     <<EmailLowerA, AnswersExact, PwWeak, PwWeak>>,
     <<EmailLowerA, AnswersExact, PwStrong2, PwStrong1>>,
     <<EmailLowerB, AnswersExact, PwStrong2, PwStrong2>>}

(***************************************************************************)
(* Schema validators (schemas/user.py).                                    *)
(***************************************************************************)
\* EmailStr: one "@", a non-empty local part, a dotted domain, no blanks.
IsEmail(v) ==
    /\ Cardinality({i \in 1..Len(v) : v[i] = "@"}) = 1
    /\ LET at == CHOOSE i \in 1..Len(v) : v[i] = "@"
       IN  /\ at > 1
           /\ \E d \in (at + 2)..(Len(v) - 1) : v[d] = "."
    /\ " " \notin Range(v)

MaxEmailLen == 254
MinPasswordLen == 8
MaxPasswordLen == 128

\* UserCreate.validate_email
EmailOk(v) == IsEmail(v) /\ ~(Len(v) > MaxEmailLen)

\* The check for a digit is missing.
UserCreate_validate_passwordNoDigit(v) ==
    /\ ~(Len(v) < MinPasswordLen)
    /\ ~(Len(v) > MaxPasswordLen)
    /\ \E c \in Range(v) : IsLower(c)
    /\ \E c \in Range(v) : IsUpper(c)
    /\ \E c \in Range(v) : c \in SpecialChars
\* UserCreate.validate_password
UserCreate_validate_password(v) ==
    /\ ~(Len(v) < MinPasswordLen)
    /\ ~(Len(v) > MaxPasswordLen)
    /\ \E c \in Range(v) : IsLower(c)
    /\ \E c \in Range(v) : IsUpper(c)
    /\ \E c \in Range(v) : c \in DigitChars
    /\ \E c \in Range(v) : c \in SpecialChars

\* PasswordResetVerify.validate_password
PasswordResetVerify_validate_password(v) ==
    /\ ~(Len(v) < MinPasswordLen)
    /\ ~(Len(v) > MaxPasswordLen)
    /\ \E c \in Range(v) : IsLower(c)
    /\ \E c \in Range(v) : IsUpper(c)
    /\ \E c \in Range(v) : c \in DigitChars
    /\ \E c \in Range(v) : c \in SpecialChars

\* The check for a special character is missing.
PasswordChangeRequest_no_special(v) ==
    /\ ~(Len(v) < MinPasswordLen)
    /\ ~(Len(v) > MaxPasswordLen)
    /\ \E c \in Range(v) : IsLower(c)
    /\ \E c \in Range(v) : IsUpper(c)
    /\ \E c \in Range(v) : c \in DigitChars
\* PasswordChangeRequest.validate_password
PasswordChangeRequest_validate_password(v) ==
    /\ ~(Len(v) < MinPasswordLen)
    /\ ~(Len(v) > MaxPasswordLen)
    /\ \E c \in Range(v) : IsLower(c)
    /\ \E c \in Range(v) : IsUpper(c)
    /\ \E c \in Range(v) : c \in DigitChars
    /\ \E c \in Range(v) : c \in SpecialChars

\* passwords_match
PasswordsMatch(v, password) == ~(v # password)

(***************************************************************************)
(* Password Hasher (core/security.py).                                     *)
(***************************************************************************)
\* get_password_hash with the salt the generator drew.
get_password_hash(plain, salt) == <<"$2b", salt>> \o plain

\* verify_password: recompute with the embedded salt and compare.
verify_password(plain, hashed) ==
    /\ Len(hashed) >= 2
    /\ hashed[1] = "$2b"
    /\ get_password_hash(plain, hashed[2]) = hashed

(***************************************************************************)
(* Token Service (core/security.py, core/config.py).                       *)
(***************************************************************************)
SecretKey == "secret_key"
WrongKey == "wrong_secret"
access_token_expire_minutes == 30

\* HMAC over the claims: equal exactly for equal key and equal claims.
Sign(sub, exp, key) == <<key, sub, exp>>

Jwt(sub, exp, key) ==
    [kind |-> "jwt", sub |-> sub, exp |-> exp, sig |-> Sign(sub, exp, key)]

\* create_access_token(data={"sub": sub}, expires_delta=ttl) at time t.
create_access_token(sub, ttl, t) == Jwt(sub, t + ttl, SecretKey)

\* The expiry is not checked.
verify_tokenNoExpiry(token, t) ==
    IF token.kind # "jwt" THEN NULL
    ELSE IF token.sig # Sign(token.sub, token.exp, SecretKey) THEN NULL
    ELSE IF token.sub = NULL THEN NULL
    ELSE token.sub
\* The claims are decoded without verifying the signature.
verify_tokenNoSignature(token, t) ==
    IF token.kind # "jwt" THEN NULL
    ELSE IF ~(t < token.exp) THEN NULL
    ELSE IF token.sub = NULL THEN NULL
    ELSE token.sub
\* verify_token at time t: the subject, or NULL for every failure.
verify_token(token, t) ==
    IF token.kind # "jwt" THEN NULL
    ELSE IF token.sig # Sign(token.sub, token.exp, SecretKey) THEN NULL
    ELSE IF ~(t < token.exp) THEN NULL
    ELSE IF token.sub = NULL THEN NULL
    ELSE token.sub

NoToken == [kind |-> "none", sub |-> NULL, exp |-> 0, sig |-> <<>>]
MalformedToken == [kind |-> "malformed", sub |-> NULL, exp |-> 0, sig |-> <<>>]

(***************************************************************************)
(* The users table (models/user.py) and its queries.                       *)
(***************************************************************************)
NewUser(id, email, hashed_password) ==
    [id |-> id, email |-> email, hashed_password |-> hashed_password,
     security_question_1 |-> NULL, security_answer_1_hash |-> NULL,
     security_question_2 |-> NULL, security_answer_2_hash |-> NULL,
     security_question_3 |-> NULL, security_answer_3_hash |-> NULL]

NoUser == 0

\* The filter compares the wrong column.
get_userWrongColumn(db, email) ==
    IF \E i \in 1..Len(db) : db[i].hashed_password = email
    THEN CHOOSE i \in 1..Len(db) : db[i].hashed_password = email
    ELSE NoUser
\* get_user: the id of the first row with that email, NoUser when none.
get_user(db, email) ==
    IF \E i \in 1..Len(db) : db[i].email = email
    THEN CHOOSE i \in 1..Len(db) :
            /\ db[i].email = email
            /\ \A j \in 1..(i - 1) : db[j].email # email
    ELSE NoUser

\* The password check is skipped.
authenticate_userNoPassword(db, email, password) == get_user(db, email)
\* The password is verified against the first row of the table.
authenticate_userFirstRow(db, email, password) ==
    LET user == get_user(db, email)
    IN  IF user = NoUser THEN NoUser
        ELSE IF ~verify_password(password, db[1].hashed_password) THEN NoUser
        ELSE user
\* authenticate_user: the user's id, or NoUser (False).
authenticate_user(db, email, password) ==
    LET user == get_user(db, email)
    IN  IF user = NoUser THEN NoUser
        ELSE IF ~verify_password(password, db[user].hashed_password) THEN NoUser
        ELSE user

\* The third slot is not looked at.
user_has_security_questionsTwoSlots(user) ==
    /\ user.security_question_1 # NULL /\ user.security_answer_1_hash # NULL
    /\ user.security_question_2 # NULL /\ user.security_answer_2_hash # NULL
user_has_security_questions(user) ==
    /\ user.security_question_1 # NULL /\ user.security_answer_1_hash # NULL
    /\ user.security_question_2 # NULL /\ user.security_answer_2_hash # NULL
    /\ user.security_question_3 # NULL /\ user.security_answer_3_hash # NULL

\* The test of the verification result is inverted.
get_current_userInverted(db, token, t) ==
    IF token.kind = "none" THEN NoUser
    ELSE LET email == verify_token(token, t)
         IN  IF email # NULL THEN NoUser ELSE get_user(db, email)
\* The subject is read from the token without verifying it.
get_current_userUnverified(db, token, t) ==
    IF token.kind # "jwt" \/ token.sub = NULL THEN NoUser
    ELSE get_user(db, token.sub)
\* oauth2_scheme + get_current_user: the user's id, or NoUser when the
\* dependency raises 401.
get_current_user(db, token, t) ==
    IF token.kind = "none" THEN NoUser
    ELSE LET email == verify_token(token, t)
         IN  IF email = NULL THEN NoUser ELSE get_user(db, email)

(***************************************************************************)
(* Requests and responses.  req keeps what identifies the last request:    *)
(* the operation, the email or bearer token it carried and, for a reset,   *)
(* the answers; resp is the response given to it; held is the bearer       *)
(* token the client keeps.                                                 *)
(***************************************************************************)
NoReq ==
    [op |-> "none", email |-> NULL, token |-> NoToken, answers |-> <<>>,
     ttl |-> 0]

NoResp ==
    [status |-> 0, detail |-> "", token |-> NoToken, email |-> NULL,
     has_security_questions |-> FALSE, questions |-> <<>>]

Error(status, detail) == [NoResp EXCEPT !.status = status, !.detail = detail]

Message(detail) == Error(200, detail)

\* The 401 of oauth2_scheme for a request without a bearer token, and the
\* credentials_exception of get_current_user.
NotAuthenticated(token) ==
    IF token.kind = "none"
    THEN Error(401, "Not authenticated")
    ELSE Error(401, "Could not validate credentials")
Unprocessable == Error(422, "validation error")

\* The Token response of signup and login.
TokenResponse(status, user, token) ==
    [NoResp EXCEPT !.status = status, !.token = token, !.email = user.email,
                   !.has_security_questions = user_has_security_questions(user)]

\* The requests in progress, each with its own database session: none
\* while requests are served one at a time.
Clients == {"c1", "c2"}
NoSession == [pc |-> "idle", email |-> NULL, password |-> NULL, resp |-> NoResp]
NoSessions == [c \in Clients |-> NoSession]

\* The tables of the expense router and the attachment directory.
EmptyStore ==
    [business_units |-> <<>>, trucks |-> <<>>, trailers |-> <<>>,
     fuel_stations |-> <<>>, expenses |-> <<>>, files |-> {}]

Init ==
    /\ users = <<>>
    /\ now = 0
    /\ held = NoToken
    /\ req = NoReq
    /\ resp = NoResp
    /\ sessions = NoSessions
    /\ store = EmptyStore

\* POST /auth/signup
create_user(email, password, confirm, keep) ==
    /\ req' = [NoReq EXCEPT !.op = "signup", !.email = email]
    /\ IF ~(EmailOk(email) /\ UserCreate_validate_password(password)
            /\ PasswordsMatch(confirm, password))
       THEN /\ resp' = Unprocessable
            /\ UNCHANGED <<users, held>>
       ELSE LET user_email == Lower(email)
            IN  IF get_user(users, Lower(user_email)) # NoUser
                THEN /\ resp' = Error(400, "Email already registered")
                     /\ UNCHANGED <<users, held>>
                ELSE \E salt \in Salts :
                     LET db_user == NewUser(Len(users) + 1, Lower(user_email),
                                            get_password_hash(password, salt))
                         access_token ==
                             create_access_token(db_user.email,
                                                 access_token_expire_minutes, now)
                     IN  /\ users' = Append(users, db_user)
                         /\ resp' = TokenResponse(201, db_user, access_token)
                         /\ held' = IF keep THEN access_token ELSE held
    /\ UNCHANGED now

\* POST /auth/login
login_user(username, password, keep) ==
    /\ req' = [NoReq EXCEPT !.op = "login", !.email = username]
    /\ LET user_obj == authenticate_user(users, Lower(username), password)
       IN  IF user_obj = NoUser
           THEN /\ resp' = Error(401, "Incorrect email or password")
                /\ UNCHANGED held
           ELSE LET access_token ==
                        create_access_token(users[user_obj].email,
                                            access_token_expire_minutes, now)
                IN  /\ resp' = TokenResponse(200, users[user_obj], access_token)
                    /\ held' = IF keep THEN access_token ELSE held
    /\ UNCHANGED <<users, now>>

\* GET /auth/me
read_current_user(token) ==
    /\ req' = [NoReq EXCEPT !.op = "me", !.token = token]
    /\ LET current_user == get_current_user(users, token, now)
       IN  IF current_user = NoUser
           THEN resp' = NotAuthenticated(token)
           ELSE resp' = [NoResp EXCEPT
                    !.status = 200,
                    !.email = users[current_user].email,
                    !.has_security_questions =
                        user_has_security_questions(users[current_user])]
    /\ UNCHANGED <<users, now, held>>

\* POST /auth/password/change
change_password(token, current_password, new_password, confirm) ==
    /\ req' = [NoReq EXCEPT !.op = "change_password", !.token = token]
    /\ LET current_user == get_current_user(users, token, now)
       IN  IF current_user = NoUser
           THEN /\ resp' = NotAuthenticated(token)
                /\ UNCHANGED users
           ELSE IF ~(PasswordChangeRequest_validate_password(new_password)
                     /\ PasswordsMatch(confirm, new_password))
           THEN /\ resp' = Unprocessable
                /\ UNCHANGED users
           ELSE IF ~verify_password(current_password,
                                    users[current_user].hashed_password)
           THEN /\ resp' = Error(400, "Current password is incorrect")
                /\ UNCHANGED users
           ELSE /\ \E salt \in Salts :
                    users' = [users EXCEPT ![current_user].hashed_password =
                                get_password_hash(new_password, salt)]
                /\ resp' = Message("Password changed successfully")
    /\ UNCHANGED <<now, held>>

\* The clock: TickMinutes pass.
Tick ==
    /\ now < MaxTicks * TickMinutes
    /\ now' = now + TickMinutes
    /\ UNCHANGED <<users, held, req, resp>>

(***************************************************************************)
(* Security questions (schemas/user.py, routers/auth.py).                  *)
(***************************************************************************)
MinQuestionLen == 10
MaxQuestionLen == 500
MinAnswerLen == 2
MaxAnswerLen == 100

\* SecurityQuestion.validate_question / SecurityQuestionUpdate.validate_question
QuestionOk(v) ==
    /\ ~(v = <<>> \/ Len(Strip(v)) < MinQuestionLen)
    /\ ~(Len(v) > MaxQuestionLen)
NormQuestion(v) == Strip(v)

\* SecurityQuestion.validate_answer / SecurityQuestionUpdate.validate_answer
AnswerOk(v) ==
    /\ ~(v = <<>> \/ Len(Strip(v)) < MinAnswerLen)
    /\ ~(Len(v) > MaxAnswerLen)
\* The answer is trimmed but not lower-cased.
NormAnswerNoLower(v) == Strip(v)
NormAnswer(v) == Lower(Strip(v))

\* validate_current_password
CurrentPasswordOk(v) == ~(v = <<>> \/ Len(Strip(v)) < 1)

SecurityQuestionOk(q) ==
    QuestionOk(q.question) /\ AnswerOk(q.answer)
        /\ CurrentPasswordOk(q.current_password)

\* The questions are compared for duplicates without lower-casing them.
SecurityQuestionsSetupCaseSensitive(qs) ==
    /\ \A i \in 1..Len(qs) : SecurityQuestionOk(qs[i])
    /\ ~(Len(qs) # 3)
    /\ LET questions == [i \in 1..Len(qs) |-> NormQuestion(qs[i].question)]
       IN  ~(Cardinality(Range(questions)) # Len(questions))
\* SecurityQuestionsSetup.validate_questions, run over the validated items.
SecurityQuestionsSetupOk(qs) ==
    /\ \A i \in 1..Len(qs) : SecurityQuestionOk(qs[i])
    /\ ~(Len(qs) # 3)
    /\ LET questions == [i \in 1..Len(qs) |-> Lower(NormQuestion(qs[i].question))]
       IN  ~(Cardinality(Range(questions)) # Len(questions))

\* The hash of the third answer is not assigned.
WriteSecurityQuestionsFive(user, qs, s1, s2, s3) ==
    [user EXCEPT
        !.security_question_1 = NormQuestion(qs[1].question),
        !.security_answer_1_hash = get_password_hash(NormAnswer(qs[1].answer), s1),
        !.security_question_2 = NormQuestion(qs[2].question),
        !.security_answer_2_hash = get_password_hash(NormAnswer(qs[2].answer), s2),
        !.security_question_3 = NormQuestion(qs[3].question)]
\* The six assignments of setup_security_questions and
\* update_security_questions.
WriteSecurityQuestions(user, qs, s1, s2, s3) ==
    [user EXCEPT
        !.security_question_1 = NormQuestion(qs[1].question),
        !.security_answer_1_hash = get_password_hash(NormAnswer(qs[1].answer), s1),
        !.security_question_2 = NormQuestion(qs[2].question),
        !.security_answer_2_hash = get_password_hash(NormAnswer(qs[2].answer), s2),
        !.security_question_3 = NormQuestion(qs[3].question),
        !.security_answer_3_hash = get_password_hash(NormAnswer(qs[3].answer), s3)]

SecurityQuestionsHandler(op, message, token, questions) ==
    /\ req' = [NoReq EXCEPT !.op = op, !.token = token]
    /\ LET current_user == get_current_user(users, token, now)
       IN  IF current_user = NoUser
           THEN /\ resp' = NotAuthenticated(token)
                /\ UNCHANGED users
           ELSE IF ~SecurityQuestionsSetupOk(questions)
           THEN /\ resp' = Unprocessable
                /\ UNCHANGED users
           ELSE /\ \E s1 \in Salts, s2 \in Salts, s3 \in Salts :
                    users' = [users EXCEPT ![current_user] =
                        WriteSecurityQuestions(users[current_user], questions,
                                               s1, s2, s3)]
                /\ resp' = Message(message)
    /\ UNCHANGED <<now, held>>

\* POST /auth/security-questions
setup_security_questions(token, questions) ==
    SecurityQuestionsHandler("setup_security_questions",
                             "Security questions set up successfully",
                             token, questions)

\* PUT /auth/security-questions
update_security_questions(token, questions) ==
    SecurityQuestionsHandler("update_security_questions",
                             "Security questions updated successfully",
                             token, questions)

\* GET /auth/security-questions
get_security_questions(token) ==
    /\ req' = [NoReq EXCEPT !.op = "get_security_questions", !.token = token]
    /\ LET current_user == get_current_user(users, token, now)
       IN  IF current_user = NoUser
           THEN resp' = NotAuthenticated(token)
           ELSE LET u == users[current_user]
                IN  resp' = [NoResp EXCEPT
                        !.status = 200,
                        !.questions = <<u.security_question_1,
                                        u.security_question_2,
                                        u.security_question_3>>,
                        !.has_security_questions = user_has_security_questions(u)]
    /\ UNCHANGED <<users, now, held>>

\* Every index above 0 is written to the second slot.
update_individual_security_questionSecondSlot(token, question, answer, current_password, question_index) ==
    /\ req' = [NoReq EXCEPT !.op = "update_individual_security_question",
                            !.token = token]
    /\ LET current_user == get_current_user(users, token, now)
       IN  IF current_user = NoUser
           THEN /\ resp' = NotAuthenticated(token)
                /\ UNCHANGED users
           ELSE IF ~(QuestionOk(question) /\ AnswerOk(answer)
                     /\ CurrentPasswordOk(current_password)
                     /\ question_index \in {0, 1, 2})
           THEN /\ resp' = Unprocessable
                /\ UNCHANGED users
           ELSE IF ~verify_password(Strip(current_password),
                                    users[current_user].hashed_password)
           THEN /\ resp' = Error(400, "Current password is incorrect")
                /\ UNCHANGED users
           ELSE /\ \E salt \in Salts :
                    LET hash == get_password_hash(NormAnswer(answer), salt)
                    IN  users' =
                          IF question_index = 0
                          THEN [users EXCEPT
                                  ![current_user].security_question_1 =
                                      NormQuestion(question),
                                  ![current_user].security_answer_1_hash = hash]
                          ELSE IF question_index = 1
                          THEN [users EXCEPT
                                  ![current_user].security_question_2 =
                                      NormQuestion(question),
                                  ![current_user].security_answer_2_hash = hash]
                          ELSE [users EXCEPT
                                  ![current_user].security_question_2 =
                                      NormQuestion(question),
                                  ![current_user].security_answer_2_hash = hash]
                /\ resp' = Message("Security question updated successfully")
    /\ UNCHANGED <<now, held>>
\* PUT /auth/security-questions/individual
update_individual_security_question(token, question, answer, current_password, question_index) ==
    /\ req' = [NoReq EXCEPT !.op = "update_individual_security_question",
                            !.token = token]
    /\ LET current_user == get_current_user(users, token, now)
       IN  IF current_user = NoUser
           THEN /\ resp' = NotAuthenticated(token)
                /\ UNCHANGED users
           ELSE IF ~(QuestionOk(question) /\ AnswerOk(answer)
                     /\ CurrentPasswordOk(current_password)
                     /\ question_index \in {0, 1, 2})
           THEN /\ resp' = Unprocessable
                /\ UNCHANGED users
           ELSE IF ~verify_password(Strip(current_password),
                                    users[current_user].hashed_password)
           THEN /\ resp' = Error(400, "Current password is incorrect")
                /\ UNCHANGED users
           ELSE /\ \E salt \in Salts :
                    LET hash == get_password_hash(NormAnswer(answer), salt)
                    IN  users' =
                          IF question_index = 0
                          THEN [users EXCEPT
                                  ![current_user].security_question_1 =
                                      NormQuestion(question),
                                  ![current_user].security_answer_1_hash = hash]
                          ELSE IF question_index = 1
                          THEN [users EXCEPT
                                  ![current_user].security_question_2 =
                                      NormQuestion(question),
                                  ![current_user].security_answer_2_hash = hash]
                          ELSE [users EXCEPT
                                  ![current_user].security_question_3 =
                                      NormQuestion(question),
                                  ![current_user].security_answer_3_hash = hash]
                /\ resp' = Message("Security question updated successfully")
    /\ UNCHANGED <<now, held>>

(***************************************************************************)
(* Password reset by security questions.                                   *)
(***************************************************************************)
\* The check that the questions are configured is missing.
request_password_resetUnchecked(email) ==
    /\ req' = [NoReq EXCEPT !.op = "reset_request", !.email = email]
    /\ IF ~IsEmail(email)
       THEN resp' = Unprocessable
       ELSE LET user == get_user(users, Lower(email))
            IN  IF user = NoUser
                THEN resp' = Error(404, "If this email is registered and has security questions set up, they will be displayed.")
                ELSE resp' = [NoResp EXCEPT
                        !.status = 200,
                        !.questions = <<users[user].security_question_1,
                                        users[user].security_question_2,
                                        users[user].security_question_3>>,
                        !.has_security_questions = TRUE]
    /\ UNCHANGED <<users, now, held>>
\* POST /auth/password/reset-request
request_password_reset(email) ==
    /\ req' = [NoReq EXCEPT !.op = "reset_request", !.email = email]
    /\ IF ~IsEmail(email)
       THEN resp' = Unprocessable
       ELSE LET user == get_user(users, Lower(email))
            IN  IF user = NoUser
                THEN resp' = Error(404, "If this email is registered and has security questions set up, they will be displayed.")
                ELSE IF ~user_has_security_questions(users[user])
                THEN resp' = Error(400, "No security questions found for this account. Please contact support.")
                ELSE resp' = [NoResp EXCEPT
                        !.status = 200,
                        !.questions = <<users[user].security_question_1,
                                        users[user].security_question_2,
                                        users[user].security_question_3>>,
                        !.has_security_questions = TRUE]
    /\ UNCHANGED <<users, now, held>>

\* PasswordResetVerify.validate_answers
NormAnswers(v) == [i \in 1..Len(v) |-> Lower(Strip(v[i]))]

\* One matching answer is taken to be enough.
security_answers_verifyAny(reset_answers, user) ==
    \/ verify_password(reset_answers[1], user.security_answer_1_hash)
    \/ verify_password(reset_answers[2], user.security_answer_2_hash)
    \/ verify_password(reset_answers[3], user.security_answer_3_hash)
\* The condition "verify all security answers" of verify_password_reset.
security_answers_verify(reset_answers, user) ==
    /\ verify_password(reset_answers[1], user.security_answer_1_hash)
    /\ verify_password(reset_answers[2], user.security_answer_2_hash)
    /\ verify_password(reset_answers[3], user.security_answer_3_hash)

\* POST /auth/password/reset-verify
verify_password_reset(email, answers, new_password, confirm) ==
    /\ req' = [NoReq EXCEPT !.op = "reset_verify", !.email = email,
                            !.answers = answers]
    /\ IF ~(IsEmail(email) /\ ~(Len(answers) # 3)
            /\ PasswordResetVerify_validate_password(new_password)
            /\ PasswordsMatch(confirm, new_password))
       THEN /\ resp' = Unprocessable
            /\ UNCHANGED users
       ELSE LET user == get_user(users, Lower(email))
                reset_answers == NormAnswers(answers)
            IN  IF user = NoUser \/ ~user_has_security_questions(users[user])
                THEN /\ resp' = Error(400, "Invalid reset request")
                     /\ UNCHANGED users
                ELSE IF ~security_answers_verify(reset_answers, users[user])
                THEN /\ resp' = Error(400, "One or more security answers are incorrect")
                     /\ UNCHANGED users
                ELSE /\ \E salt \in Salts :
                        users' = [users EXCEPT ![user].hashed_password =
                                    get_password_hash(new_password, salt)]
                     /\ resp' = Message("Password reset successfully")
    /\ UNCHANGED <<now, held>>

(***************************************************************************)
(* The tokens a request may carry: the one the client holds, none, a       *)
(* malformed one, one signed with another secret, the held one with its    *)
(* subject altered, one without a subject, and one signed with the         *)
(* configured secret for a subject that never signs up.                    *)
(***************************************************************************)
ForgedToken == Jwt(EmailLowerA, now + access_token_expire_minutes, WrongKey)
TamperedToken == [held EXCEPT !.sub = EmailLowerB]
NoSubjectToken == Jwt(NULL, now + access_token_expire_minutes, SecretKey)
StrangerToken == Jwt(EmailLowerB, now + access_token_expire_minutes, SecretKey)

PresentedTokens ==
    {held, NoToken, MalformedToken, ForgedToken, TamperedToken,
     NoSubjectToken, StrangerToken}

WriterTokens == {held, NoToken, StrangerToken}

\* The part of the state the /auth endpoints and the clock never touch.
others == <<sessions, store>>

Next ==
    \/ /\ \E in \in SignupInputs, keep \in BOOLEAN :
            create_user(in[1], in[2], in[3], keep)
       /\ UNCHANGED others
    \/ /\ \E in \in LoginInputs, keep \in BOOLEAN :
            login_user(in[1], in[2], keep)
       /\ UNCHANGED others
    \/ /\ \E token \in PresentedTokens : read_current_user(token)
       /\ UNCHANGED others
    \/ /\ \E token \in WriterTokens, questions \in SetupInputs :
            setup_security_questions(token, questions)
       /\ UNCHANGED others
    \/ /\ \E token \in WriterTokens, questions \in UpdateInputs :
            update_security_questions(token, questions)
       /\ UNCHANGED others
    \/ /\ \E token \in WriterTokens : get_security_questions(token)
       /\ UNCHANGED others
    \/ /\ \E token \in WriterTokens, in \in IndividualInputs :
            update_individual_security_question(token, in[1], in[2], in[3], in[4])
       /\ UNCHANGED others
    \/ /\ \E token \in WriterTokens, in \in ChangeInputs :
            change_password(token, in[1], in[2], in[3])
       /\ UNCHANGED others
    \/ /\ \E email \in ResetRequestInputs : request_password_reset(email)
       /\ UNCHANGED others
    \/ /\ \E in \in ResetInputs :
            verify_password_reset(in[1], in[2], in[3], in[4])
       /\ UNCHANGED others
    \/ Tick /\ UNCHANGED others

Spec == Init /\ [][Next]_vars

(***************************************************************************)
(* Properties of signup and login.                                         *)
(***************************************************************************)
CaseVariantsA == {EmailUpperA, EmailLowerA}

\* The rows other than the password hash and the security questions never
\* change, so a row is "unchanged" when the whole table is.
Registered(email) == \E i \in 1..Len(users) : users[i].email = email

\* C1: a schema-valid signup whose email is, up to letter case, the email
\* of an existing user is answered 400 "Email already registered", adds no
\* user and leaves every stored row (password hash included) as it was.
C1_DuplicateSignupRejected ==
    [][req'.op = "signup" =>
       \A in \in SignupInputs, keep \in BOOLEAN :
          ( /\ create_user(in[1], in[2], in[3], keep)
            /\ in[1] \in CaseVariantsA
            /\ UserCreate_validate_password(in[2])
            /\ in[3] = in[2]
            /\ \E other \in CaseVariantsA : Registered(other) )
          => ( /\ resp' = Error(400, "Email already registered")
               /\ users' = users
               /\ held' = held )]_vars

C1_Witness ==
    /\ req.op = "signup"
    /\ req.email = EmailUpperA
    /\ resp = Error(400, "Email already registered")
    /\ Len(users) = 1
    /\ users[1].email = EmailLowerA

\* C2: a login for an identifier that matches no user and a login with a
\* wrong password for an existing user get the same response, 401 with
\* the detail "Incorrect email or password", and neither changes the
\* stored users or issues a token.
C2_LoginFailureUniform ==
    [][req'.op = "login" =>
       \A in \in LoginInputs, keep \in BOOLEAN :
          ( /\ login_user(in[1], in[2], keep)
            /\ \/ \A i \in 1..Len(users) : users[i].email # Lower(in[1])
               \/ \E i \in 1..Len(users) :
                    /\ users[i].email = Lower(in[1])
                    /\ \A salt \in Salts :
                         users[i].hashed_password
                             # get_password_hash(in[2], salt) )
          => ( /\ resp' = Error(401, "Incorrect email or password")
               /\ users' = users
               /\ held' = held )]_vars

C2_Witness ==
    /\ req.op = "login"
    /\ resp = Error(401, "Incorrect email or password")
    /\ Registered(Lower(req.email))

\* C3: the stored email is the lower-cased one, and a login with the
\* registered email in either letter casing and the current password is
\* answered 200 with a token that verifies and whose subject is the
\* lower-cased email.
C3_CaseInsensitiveIdentity ==
    /\ [](\A i \in 1..Len(users) : users[i].email = EmailLowerA)
    /\ [][req'.op = "login" =>
          \A in \in LoginInputs, keep \in BOOLEAN :
             ( /\ login_user(in[1], in[2], keep)
               /\ in[1] \in CaseVariantsA
               /\ users # <<>>
               /\ \E salt \in Salts :
                    users[1].hashed_password
                        = get_password_hash(in[2], salt) )
             => ( /\ resp'.status = 200
                  /\ resp'.email = EmailLowerA
                  /\ resp'.token.sub = EmailLowerA
                  /\ verify_token(resp'.token, now) = EmailLowerA )]_vars

C3_Witness ==
    /\ req.op = "login"
    /\ req.email = EmailUpperA
    /\ resp.status = 200
    /\ resp.token.sub = EmailLowerA
    /\ Len(users) = 1
    /\ users[1].email = EmailLowerA

(***************************************************************************)
(* Properties of bearer authentication.                                    *)
(***************************************************************************)
ProtectedOps ==
    {"me", "setup_security_questions", "update_security_questions",
     "get_security_questions", "update_individual_security_question",
     "change_password"}

\* The token is a correctly signed, unexpired token whose subject is the
\* email of a stored user.
TokenGood(token) ==
    /\ token.kind = "jwt"
    /\ token.sig = <<SecretKey, token.sub, token.exp>>
    /\ now < token.exp
    /\ token.sub # NULL
    /\ Registered(token.sub)

\* C6: the token the client got from signup or login authenticates its
\* user until it expires, whatever the server has done since (password
\* change, password reset, security-question changes): in every state the
\* unexpired held token resolves to the user named by its subject, and no
\* protected request carrying it is answered 401.
C6_NoRevocation ==
    /\ []((held.kind = "jwt" /\ now < held.exp)
            => LET user == get_current_user(users, held, now)
               IN  user # NoUser /\ users[user].email = held.sub)
    /\ [][( /\ req'.op \in ProtectedOps
            /\ now' = now
            /\ req'.token = held
            /\ held.kind = "jwt"
            /\ now < held.exp )
          => resp'.status # 401]_vars

C6_Witness ==
    /\ req.op = "change_password"
    /\ req.token = held
    /\ resp = Message("Password changed successfully")
    /\ held.kind = "jwt"
    /\ now < held.exp
    /\ user_has_security_questions(users[1])

\* C7: a request to a bearer-protected endpoint is answered 200 only if
\* its token is good; when the token is missing, malformed, forged,
\* tampered with, expired, or names no stored user, the answer is 401 and
\* neither the users table nor the client's token changes.
C7_ProtectedNeedsGoodToken ==
    [][(req'.op \in ProtectedOps /\ now' = now)
       => ( /\ resp'.status = 200 => TokenGood(req'.token)
            /\ ~TokenGood(req'.token)
                 => ( /\ resp'.status = 401
                      /\ users' = users
                      /\ held' = held ) )]_vars

C7_Witness ==
    /\ req.op = "me"
    /\ resp.status = 401
    /\ req.token.kind = "jwt"
    /\ req.token.sig = <<SecretKey, req.token.sub, req.token.exp>>
    /\ now < req.token.exp
    /\ req.token.sub = EmailLowerB
    /\ users # <<>>

(***************************************************************************)
(* Properties of password change and password reset.                       *)
(***************************************************************************)
UserOf(token) == CHOOSE i \in 1..Len(users) : users[i].email = token.sub

IsHashOf(hashed, plain) == \E salt \in Salts : hashed = <<"$2b", salt>> \o plain

\* Only the password hash of row u differs between users and users'.
OnlyPasswordChanged(u) ==
    users' = [users EXCEPT ![u].hashed_password = users'[u].hashed_password]

\* C8: for an authenticated caller, a password change whose new password
\* meets the signup policy and equals its confirmation replaces the stored
\* hash by a hash of the new password exactly when current_password
\* verifies against the stored hash, and is answered 400 "Current password
\* is incorrect" with the table unchanged when it does not; a new password
\* that violates the signup policy changes nothing.
C8_ChangePassword ==
    [][req'.op = "change_password" =>
       \A in \in ChangeInputs :
          (change_password(req'.token, in[1], in[2], in[3])
              /\ TokenGood(req'.token))
          => LET u == UserOf(req'.token)
                 current_ok == IsHashOf(users[u].hashed_password, in[1])
                 policy_ok == UserCreate_validate_password(in[2])
                 confirmed == in[3] = in[2]
             IN  /\ (policy_ok /\ confirmed /\ current_ok)
                      => ( /\ resp' = Message("Password changed successfully")
                           /\ IsHashOf(users'[u].hashed_password, in[2])
                           /\ OnlyPasswordChanged(u) )
                 /\ (policy_ok /\ confirmed /\ ~current_ok)
                      => ( /\ resp' = Error(400, "Current password is incorrect")
                           /\ users' = users )
                 /\ ~(policy_ok /\ confirmed)
                      => (resp'.status = 422 /\ users' = users)]_vars

C8_Witness ==
    /\ req.op = "change_password"
    /\ resp = Error(400, "Current password is incorrect")
    /\ TokenGood(req.token)

AllSlotsSet(user) ==
    /\ user.security_question_1 # NULL /\ user.security_answer_1_hash # NULL
    /\ user.security_question_2 # NULL /\ user.security_answer_2_hash # NULL
    /\ user.security_question_3 # NULL /\ user.security_answer_3_hash # NULL

AnswerHashes(user) ==
    <<user.security_answer_1_hash, user.security_answer_2_hash,
      user.security_answer_3_hash>>

ResetSchemaOk(in) ==
    /\ IsEmail(in[1])
    /\ Len(in[2]) = 3
    /\ UserCreate_validate_password(in[3])
    /\ in[4] = in[3]

\* C9: a schema-valid reset-verify replaces the password hash (by a hash
\* of the new password, and nothing else) exactly when the lower-cased
\* email is registered, all six security-question fields of that user are
\* set and each of the three answers, trimmed and lower-cased, verifies
\* against the stored hash of its own slot; otherwise it is answered 400
\* and the table is unchanged, with "One or more security answers are
\* incorrect" when only the answers fail.
C9_ResetVerify ==
    [][req'.op = "reset_verify" =>
       \A in \in ResetInputs :
          verify_password_reset(in[1], in[2], in[3], in[4])
          => IF ~ResetSchemaOk(in) THEN users' = users
             ELSE LET known == Registered(Lower(in[1]))
                      u == CHOOSE i \in 1..Len(users) : users[i].email = Lower(in[1])
                      configured == known /\ AllSlotsSet(users[u])
                      answers_ok ==
                          configured /\
                          \A i \in 1..3 :
                              IsHashOf(AnswerHashes(users[u])[i],
                                       Lower(Strip(in[2][i])))
                  IN  /\ answers_ok
                           => ( /\ resp' = Message("Password reset successfully")
                                /\ IsHashOf(users'[u].hashed_password, in[3])
                                /\ OnlyPasswordChanged(u) )
                      /\ ~answers_ok
                           => (resp'.status = 400 /\ users' = users)
                      /\ (configured /\ ~answers_ok)
                           => resp' = Error(400,
                                  "One or more security answers are incorrect")]_vars

C9_Witness ==
    /\ req.op = "reset_verify"
    /\ req.answers = AnswersWrong2
    /\ resp = Error(400, "One or more security answers are incorrect")
    /\ users # <<>>
    /\ IsHashOf(users[1].security_answer_1_hash, AnsBlueLower)
    /\ IsHashOf(users[1].security_answer_3_hash, AnsChicagoLower)

\* The security-question fields of the user are those a setup with the
\* list qs leaves.
StoredAsSetup(user, qs) ==
    \E s1 \in Salts, s2 \in Salts, s3 \in Salts :
        WriteSecurityQuestions(user, qs, s1, s2, s3) = user

\* C10: when a user's security questions are as the setup with the
\* answers "Blue", "Rex", "Chicago" left them, a schema-valid reset-verify
\* with the answers "blue", " REX ", "chicago" (or the answers as given
\* at setup) succeeds.
C10_AnswersNormalized ==
    [][req'.op = "reset_verify" =>
       \A in \in ResetInputs :
          ( /\ verify_password_reset(in[1], in[2], in[3], in[4])
            /\ ResetSchemaOk(in)
            /\ in[1] \in CaseVariantsA
            /\ in[2] \in {AnswersVariant, AnswersExact}
            /\ users # <<>>
            /\ StoredAsSetup(users[1], SetupValid) )
          => ( /\ resp' = Message("Password reset successfully")
               /\ IsHashOf(users'[1].hashed_password, in[3]) )]_vars

C10_Witness ==
    /\ req.op = "reset_verify"
    /\ req.answers = AnswersVariant
    /\ resp = Message("Password reset successfully")
    /\ StoredAsSetup(users[1], SetupValid)

(***************************************************************************)
(* The Token Service on its own: tokens are issued for any subject and     *)
(* ttl (in minutes), and any token is verified, as the unit tests do.      *)
(* Here req is the last issue request, held the token it returned, and     *)
(* resp the last verification: resp.token the token verified and           *)
(* resp.email the result.                                                  *)
(***************************************************************************)
TokenSubjects == {EmailLowerA, EmailLowerB}
TokenTTLs == {-60, 0, 15, 30}

issue_token(sub, ttl) ==
    /\ held' = create_access_token(sub, ttl, now)
    /\ req' = [NoReq EXCEPT !.op = "create_access_token", !.email = sub,
                            !.ttl = ttl]
    /\ UNCHANGED <<users, now, resp>>

check_token(token) ==
    /\ resp' = [NoResp EXCEPT !.detail = "verify_token", !.token = token,
                              !.email = verify_token(token, now)]
    /\ UNCHANGED <<users, now, held, req>>

\* Tokens nobody issued: malformed, signed with another secret (expired or
\* not, with or without a subject), the held one with its subject or its
\* expiry altered, and a correctly signed one without a subject.
ForeignTokens ==
    {MalformedToken, NoSubjectToken,
     [held EXCEPT !.sub = EmailLowerB],
     [held EXCEPT !.exp = held.exp + 60]}
    \cup {Jwt(sub, exp, WrongKey) :
            sub \in TokenSubjects \cup {NULL},
            exp \in {now - TickMinutes, now + access_token_expire_minutes}}

NextToken ==
    \/ /\ \E sub \in TokenSubjects, ttl \in TokenTTLs : issue_token(sub, ttl)
       /\ UNCHANGED others
    \/ /\ \E token \in {held} \cup ForeignTokens : check_token(token)
       /\ UNCHANGED others
    \/ Tick /\ UNCHANGED others

SpecToken == Init /\ [][NextToken]_vars

\* C4: a token issued for a subject with a ttl > 0 verifies to that
\* subject at the time of issue; at any time after its expiration it
\* verifies to NULL (invalid); issued with a ttl <= 0 it verifies to NULL
\* from the start.
C4_TokenLifetime ==
    [][( /\ resp'.detail = "verify_token"
         /\ resp' # resp
         /\ resp'.token = held
         /\ req.op = "create_access_token" )
       => ( /\ (req.ttl > 0 /\ now = held.exp - req.ttl)
                    => resp'.email = req.email
            /\ now > held.exp => resp'.email = NULL
            /\ req.ttl <= 0 => resp'.email = NULL )]_vars

C4_Witness ==
    /\ req.op = "create_access_token"
    /\ req.ttl > 0
    /\ resp.detail = "verify_token"
    /\ resp.token = held
    /\ resp.email = NULL
    /\ now > held.exp

\* C5: verification answers NULL (invalid), as a value and not as an
\* error, for every token that is malformed, whose signature was not made
\* with the configured secret over its claims (whatever its subject and
\* expiry), or that has no subject.
BadToken(token) ==
    \/ token.kind # "jwt"
    \/ token.sig # <<SecretKey, token.sub, token.exp>>
    \/ token.sub = NULL

C5_BadTokenInvalid ==
    (resp.detail = "verify_token" /\ BadToken(resp.token)) => resp.email = NULL

C5_Witness ==
    /\ resp.detail = "verify_token"
    /\ resp.token.kind = "jwt"
    /\ resp.token.sig = <<WrongKey, EmailLowerA, resp.token.exp>>
    /\ resp.token.sub = EmailLowerA
    /\ now < resp.token.exp
    /\ resp.email = NULL

(***************************************************************************)
(* The account endpoints on their own: one client signs up (with valid     *)
(* and invalid data), logs in, manages its security questions slot by      *)
(* slot or all at once, and asks for a password reset.                     *)
(***************************************************************************)
EmailTooLong == [i \in 1..250 |-> "a"] \o <<"@", "x", ".", "c", "o">>

PwNoLower == <<"S", "T", "R", "O", "N", "G", "1", "!">>
PwNoUpper == <<"s", "t", "r", "o", "n", "g", "1", "!">>
PwNoDigit == <<"S", "t", "r", "o", "n", "g", "g", "!">>
PwLen7 == <<"S", "t", "r", "o", "n", "1", "!">>
PwLen128 ==
    [i \in 1..128 |-> IF i = 1 THEN "S" ELSE IF i = 2 THEN "1"
                      ELSE IF i = 3 THEN "!" ELSE "a"]
PwLen129 == PwLen128 \o <<"a">>

\* signup: <<email, password, confirm_password>>
AccountSignupInputs ==
    {<<EmailUpperA, PwStrong1, PwStrong1>>,
     <<EmailLowerA, PwLen128, PwLen128>>,
     <<EmailNoAt, PwStrong1, PwStrong1>>,
     <<EmailTooLong, PwStrong1, PwStrong1>>,
     <<EmailLowerA, PwWeak, PwWeak>>,
     <<EmailLowerA, PwNoLower, PwNoLower>>,
     <<EmailLowerA, PwNoUpper, PwNoUpper>>,
     <<EmailLowerA, PwNoDigit, PwNoDigit>>,
     <<EmailLowerA, PwNoSpecial, PwNoSpecial>>,
     <<EmailLowerA, PwLen7, PwLen7>>,
     <<EmailLowerA, PwLen129, PwLen129>>,
     <<EmailLowerA, PwStrong1, PwStrong2>>}

AccountLoginInputs == {<<EmailLowerA, PwStrong1>>, <<EmailUpperA, PwLen128>>}

\* The password of signup typed with a space before and after it.
PwPadded == <<" ">> \o PwStrong1 \o <<" ">>

\* individual update: <<question, answer, current_password, question_index>>
AccountIndividualInputs ==
    {<<QPet, AnsRed, PwStrong1, 0>>,
     <<QPet, AnsRed, PwStrong1, 1>>,
     <<QCar, AnsRed, PwStrong1, 2>>,
     <<QPet, AnsRed, PwStrong2, 0>>,
     <<QCity, AnsRed, PwPadded, 1>>}

AccountTokens == {held, NoToken}

NextAccount ==
    \/ /\ \E in \in AccountSignupInputs : create_user(in[1], in[2], in[3], TRUE)
       /\ UNCHANGED others
    \/ /\ \E in \in AccountLoginInputs : login_user(in[1], in[2], TRUE)
       /\ UNCHANGED others
    \/ /\ \E token \in AccountTokens : read_current_user(token)
       /\ UNCHANGED others
    \/ /\ \E token \in AccountTokens, questions \in SetupInputs :
            setup_security_questions(token, questions)
       /\ UNCHANGED others
    \/ /\ \E token \in AccountTokens, questions \in SetupInputs :
            update_security_questions(token, questions)
       /\ UNCHANGED others
    \/ /\ \E token \in AccountTokens : get_security_questions(token)
       /\ UNCHANGED others
    \/ /\ \E token \in AccountTokens, in \in AccountIndividualInputs :
            update_individual_security_question(token, in[1], in[2], in[3], in[4])
       /\ UNCHANGED others
    \/ /\ \E email \in ResetRequestInputs : request_password_reset(email)
       /\ UNCHANGED others

SpecAccount == Init /\ [][NextAccount]_vars

(***************************************************************************)
(* Properties of the security questions and of the reset request.          *)
(***************************************************************************)
\* The holder of the client's token is a stored user.
HeldGood == held.kind = "jwt" /\ now < held.exp /\ Registered(held.sub)

\* The list is acceptable to setup and bulk update: exactly three entries,
\* questions of 10 to 500 characters (at least 10 after trimming), answers
\* of 2 to 100, a current_password, and questions that are pairwise
\* distinct once trimmed and lower-cased.
AcceptableQuestions(qs) ==
    /\ Len(qs) = 3
    /\ \A i \in 1..Len(qs) :
          /\ Len(Strip(qs[i].question)) >= 10 /\ Len(qs[i].question) <= 500
          /\ Len(Strip(qs[i].answer)) >= 2 /\ Len(qs[i].answer) <= 100
          /\ Len(Strip(qs[i].current_password)) >= 1
    /\ \A i, j \in 1..Len(qs) :
          i # j => Lower(Strip(qs[i].question)) # Lower(Strip(qs[j].question))

QuestionTexts(user) ==
    <<user.security_question_1, user.security_question_2,
      user.security_question_3>>

\* C11: a setup or bulk update by an authenticated caller is accepted
\* exactly when its list is acceptable (three questions, pairwise distinct
\* case-insensitively, within the length bounds); then all three question
\* texts and all three answer hashes of the caller are overwritten together
\* with the trimmed questions and hashes of the normalized answers, and
\* nothing else of the row changes; otherwise the request is answered 422
\* and none of the six fields changes.
C11_SetupAllOrNothing ==
    [][req'.op \in {"setup_security_questions", "update_security_questions"} =>
       \A qs \in SetupInputs :
          ( /\ \/ setup_security_questions(held, qs)
               \/ update_security_questions(held, qs)
            /\ HeldGood )
          => LET u == UserOf(held)
             IN  IF AcceptableQuestions(qs)
                 THEN /\ resp'.status = 200
                      /\ QuestionTexts(users'[u])
                            = [i \in 1..3 |-> Strip(qs[i].question)]
                      /\ \A i \in 1..3 :
                            IsHashOf(AnswerHashes(users'[u])[i],
                                     Lower(Strip(qs[i].answer)))
                      /\ users'[u].hashed_password = users[u].hashed_password
                      /\ users'[u].email = users[u].email
                      /\ Len(users') = Len(users)
                 ELSE /\ resp'.status = 422
                      /\ users' = users]_vars

C11_Witness ==
    /\ req.op = "update_security_questions"
    /\ resp = Message("Security questions updated successfully")
    /\ users # <<>>
    /\ QuestionTexts(users[1]) = <<QPet, QCity, QCar>>
    /\ IsHashOf(users[1].security_answer_1_hash, AnsBlueLower)

\* The number of slots of the user with a question text and an answer hash.
SlotsConfigured(user) ==
    Cardinality({i \in 1..3 : QuestionTexts(user)[i] # NULL
                              /\ AnswerHashes(user)[i] # NULL})

\* C12: the has_security_questions flag in the answer of WhoAmI, login,
\* signup and GET security-questions is true exactly when all three
\* question texts and all three answer hashes of that user are non-null;
\* with two slots configured it is false.
C12_FlagIffAllSix ==
    ( /\ req.op \in {"me", "login", "signup", "get_security_questions"}
      /\ resp.status \in {200, 201} )
    => LET email == IF resp.email # NULL THEN resp.email ELSE req.token.sub
           user == users[CHOOSE i \in 1..Len(users) : users[i].email = email]
       IN  /\ resp.has_security_questions
                <=> ( /\ \A i \in 1..3 : QuestionTexts(user)[i] # NULL
                      /\ \A i \in 1..3 : AnswerHashes(user)[i] # NULL )
           /\ SlotsConfigured(user) = 2 => ~resp.has_security_questions

C12_Witness ==
    /\ req.op = "me"
    /\ resp.status = 200
    /\ ~resp.has_security_questions
    /\ SlotsConfigured(users[1]) = 2
    /\ users[1].security_question_3 = NULL

\* C13: a reset request changes no stored state; it is answered 200 with
\* the three question texts exactly when the email is, up to letter case,
\* that of a stored user whose six security-question fields are all set,
\* and with an error carrying no question otherwise; no response carries
\* an answer hash.
C13_ResetRequest ==
    [][req'.op = "reset_request" =>
       \A email \in ResetRequestInputs :
          request_password_reset(email)
          => /\ users' = users
             /\ held' = held
             /\ LET known == email \in CaseVariantsA /\ Registered(EmailLowerA)
                    u == CHOOSE i \in 1..Len(users) : users[i].email = EmailLowerA
                IN  IF known /\ AllSlotsSet(users[u])
                    THEN /\ resp'.status = 200
                         /\ resp'.questions = QuestionTexts(users[u])
                    ELSE /\ resp'.status \in {400, 404, 422}
                         /\ resp'.questions = <<>>
             /\ resp'.token = NoToken
             /\ \A i \in 1..Len(users), k \in 1..3, j \in 1..Len(resp'.questions) :
                   resp'.questions[j] # AnswerHashes(users[i])[k]]_vars

C13_Witness ==
    /\ req.op = "reset_request"
    /\ req.email = EmailUpperA
    /\ resp.status = 200
    /\ resp.questions = <<QPet, QCity, QCar>>

\* C14: the response (status and detail) to a reset request for an email
\* that matches no user is the same as the response to one for a stored
\* user without security questions.  Stated over two requests in a row,
\* between which nothing is stored.
C14_ResetRequestUniform ==
    [][( /\ req.op = "reset_request"
         /\ req.email = EmailLowerB
         /\ req'.op = "reset_request"
         /\ req'.email \in CaseVariantsA
         /\ Registered(EmailLowerA)
         /\ ~AllSlotsSet(users[UserOf([sub |-> EmailLowerA])]) )
       => ( /\ resp'.status = resp.status
            /\ resp'.detail = resp.detail )]_vars

(***************************************************************************)
(* Properties of signup validation.                                        *)
(***************************************************************************)
\* The password policy: 8 to 128 characters with a lowercase letter, an
\* uppercase letter, a digit and one of @$!%*?&.
PolicyOk(p) ==
    /\ Len(p) >= 8 /\ Len(p) <= 128
    /\ \E i \in 1..Len(p) : p[i] \in Range(LowerChars)
    /\ \E i \in 1..Len(p) : p[i] \in Range(UpperChars)
    /\ \E i \in 1..Len(p) : p[i] \in DigitChars
    /\ \E i \in 1..Len(p) : p[i] \in {"@", "$", "!", "%", "*", "?", "&"}

\* C15: a signup whose email is malformed or longer than 254 characters,
\* whose password violates the policy or whose confirm_password differs is
\* answered 422 and creates no user; "weak" is rejected, and a signup with
\* a valid email not yet registered and the password "Strong1!" (or any
\* other that meets the policy) is answered 201 and creates the user.
C15_SignupValidatesFirst ==
    [][req'.op = "signup" =>
       \A in \in AccountSignupInputs :
          create_user(in[1], in[2], in[3], TRUE)
          => LET valid == /\ IsEmail(in[1]) /\ Len(in[1]) <= 254
                          /\ PolicyOk(in[2])
                          /\ in[3] = in[2]
             IN  /\ ~valid => ( /\ resp'.status = 422
                                /\ users' = users
                                /\ held' = held )
                 /\ in[2] = PwWeak => resp'.status = 422
                 /\ (valid /\ users = <<>>)
                      => ( /\ resp'.status = 201
                           /\ Len(users') = 1
                           /\ users'[1].email = EmailLowerA
                           /\ IsHashOf(users'[1].hashed_password, in[2]) )
                 /\ (in[2] = PwStrong1 /\ in[3] = PwStrong1
                        /\ in[1] = EmailUpperA /\ users = <<>>)
                      => resp'.status = 201]_vars

C15_Witness ==
    /\ req.op = "signup"
    /\ req.email = EmailLowerA
    /\ resp.status = 422
    /\ users = <<>>

(***************************************************************************)
(* Concurrent signups.  Each client's request runs in its own database     *)
(* session: the handler first queries for the email (create_user_check)    *)
(* and later adds and commits the row (create_user_commit); requests of    *)
(* other clients may run in between.  sessions[c] holds where client c's   *)
(* request stands and the response it got.                                 *)
(***************************************************************************)
\* The constraint is not declared on the column.
users_email_uniqueNotEnforced(db, email) == TRUE
\* unique=True on users.email: the INSERT is accepted only when no row has
\* the email.
users_email_unique(db, email) == \A i \in 1..Len(db) : db[i].email # email

\* signup: <<email, password, confirm_password>>
RaceSignupInputs ==
    {<<EmailUpperA, PwStrong1, PwStrong1>>,
     <<EmailLowerA, PwStrong2, PwStrong2>>,
     <<EmailLowerB, PwStrong1, PwStrong1>>,
     <<EmailNoAt, PwStrong1, PwStrong1>>}

\* POST /auth/signup up to the existence check.
create_user_check(c, email, password, confirm) ==
    /\ sessions[c].pc = "idle"
    /\ IF ~(EmailOk(email) /\ UserCreate_validate_password(password)
            /\ PasswordsMatch(confirm, password))
       THEN sessions' = [sessions EXCEPT ![c].resp = Unprocessable]
       ELSE LET user_email == Lower(email)
            IN  IF get_user(users, Lower(user_email)) # NoUser
                THEN sessions' = [sessions EXCEPT ![c].resp =
                                    Error(400, "Email already registered")]
                ELSE sessions' = [sessions EXCEPT ![c] =
                        [pc |-> "insert", email |-> Lower(user_email),
                         password |-> password, resp |-> NoResp]]
    /\ UNCHANGED <<users, now, held, req, resp, store>>

\* POST /auth/signup from db.add to the response.  An INSERT the
\* uniqueness constraint refuses raises IntegrityError, which the handler
\* does not catch: the client gets 500 and the session is discarded.
create_user_commit(c) ==
    /\ sessions[c].pc = "insert"
    /\ IF ~users_email_unique(users, sessions[c].email)
       THEN /\ sessions' = [sessions EXCEPT ![c] =
                    [NoSession EXCEPT !.resp = Error(500, "Internal Server Error")]]
            /\ UNCHANGED users
       ELSE \E salt \in Salts :
            LET db_user == NewUser(Len(users) + 1, sessions[c].email,
                                   get_password_hash(sessions[c].password, salt))
                access_token ==
                    create_access_token(db_user.email,
                                        access_token_expire_minutes, now)
            IN  /\ users' = Append(users, db_user)
                /\ sessions' = [sessions EXCEPT ![c] =
                        [NoSession EXCEPT !.resp =
                            TokenResponse(201, db_user, access_token)]]
    /\ UNCHANGED <<now, held, req, resp, store>>

NextSignupRace ==
    \/ \E c \in Clients, in \in RaceSignupInputs :
            create_user_check(c, in[1], in[2], in[3])
    \/ \E c \in Clients : create_user_commit(c)

SpecSignupRace == Init /\ [][NextSignupRace]_vars

\* C16: however two signups for the same lower-cased email interleave,
\* the emails of the stored users are pairwise distinct: both may pass the
\* existence check, but only one INSERT commits.
C16_EmailsDistinct ==
    \A i, j \in 1..Len(users) : i # j => users[i].email # users[j].email

\* Both requests passed the existence check for a@x.co; one was answered
\* 201 and the other failed at the commit.
C16_Witness ==
    /\ sessions["c1"].resp.status = 201
    /\ sessions["c1"].resp.email = EmailLowerA
    /\ sessions["c2"].resp.status = 500
    /\ sessions["c2"].pc = "idle"
    /\ Cardinality({i \in 1..Len(users) : users[i].email = EmailLowerA}) = 1

(***************************************************************************)
(* The expense router (routers/expenses.py).  store holds the tables       *)
(* business_units, trucks, trailers, fuel_stations and expenses and the    *)
(* files of the attachment directory.  The requests are those of an        *)
(* authenticated user.  The models file declares service_providers where   *)
(* the router, the schemas and the tests use business_units; the table is  *)
(* modelled as the router uses it, with the unique name the data model of  *)
(* the spec gives it.  The amount of an expense is the field the router    *)
(* validates and the table stores, price.                                  *)
(***************************************************************************)
MaxId == 2

CompanyEnum == {"Swatch", "SWS"}
ExpenseCategoryEnum ==
    {"truck", "trailer", "dmv", "parts", "phone-tracker", "other-expenses",
     "toll", "office-supplies", "fuel-diesel", "def"}

\* None for an id and for an attachment path.
NoId == 0
NoPath == [name |-> "", uid |-> 0, ext |-> ""]

\* A response of the expense router: status, detail (the pieces of the
\* message), the id of the row concerned and, for a refused delete, the
\* number of expenses counted.
Reply(status, detail, id, count) ==
    [status |-> status, detail |-> detail, id |-> id, count |-> count]
Ok == Reply(0, <<>>, NoId, 0)

Request(op, model, id) == [op |-> op, model |-> model, id |-> id]

\* The reference tables: model, identifying column, entity_name, label and
\* maximum length of the identifier (schemas/expense.py).
Models == {"business_units", "trucks", "trailers", "fuel_stations"}
FieldName(model) == IF model \in {"trucks", "trailers"} THEN "number" ELSE "name"
EntityName(model) ==
    CASE model = "business_units" -> "business_unit"
      [] model = "trucks" -> "truck"
      [] model = "trailers" -> "trailer"
      [] model = "fuel_stations" -> "fuel_station"
Label(model) ==
    CASE model = "business_units" -> "Business unit"
      [] model = "trucks" -> "Truck"
      [] model = "trailers" -> "Trailer"
      [] model = "fuel_stations" -> "Fuel station"
MaxIdentifierLen(model) == IF model \in {"trucks", "trailers"} THEN 50 ELSE 100

\* The id SQLite gives a new row: one more than the largest in the table.
RECURSIVE MaxRowId(_)
MaxRowId(rows) ==
    IF rows = <<>> THEN 0
    ELSE LET m == MaxRowId(Tail(rows))
         IN  IF Head(rows).id > m THEN Head(rows).id ELSE m
NextRowId(rows) == MaxRowId(rows) + 1

\* query.filter(model.id == id).first(): the position of the row, 0 if none.
RowWithId(rows, id) ==
    IF \E i \in 1..Len(rows) : rows[i].id = id
    THEN CHOOSE i \in 1..Len(rows) : rows[i].id = id
    ELSE 0

\* db.delete(row)
DeleteRow(rows, id) == SelectSeq(rows, LAMBDA r : r.id # id)

\* The duplicate check is missing.
check_duplicate_entityNever(db, model, field_name, value, exclude_id) == FALSE
\* check_duplicate_entity
check_duplicate_entity(db, model, field_name, value, exclude_id) ==
    \E i \in 1..Len(db[model]) :
        /\ db[model][i][field_name] = value
        /\ (exclude_id # NoId => db[model][i].id # exclude_id)

\* unique=True on the identifying column: an INSERT or UPDATE is refused
\* when another row has the value.
UniqueViolation(db, model, field_name, value, id) ==
    \E i \in 1..Len(db[model]) :
        db[model][i][field_name] = value /\ db[model][i].id # id

\* The column of expenses that refers to the entity.
ExpenseColumn(entity_name) ==
    CASE entity_name = "business_unit" -> "business_unit_id"
      [] entity_name = "truck" -> "truck_id"
      [] entity_name = "trailer" -> "trailer_id"
      [] entity_name = "fuel_station" -> "fuel_station_id"

\* The count of referencing expenses is not taken.
expense_countNone(db, entity_name, entity_id) == 0
\* db.query(Expense).filter(Expense.<entity_name>_id == entity_id).count()
expense_count(db, entity_name, entity_id) ==
    Cardinality({i \in 1..Len(db.expenses) :
                    db.expenses[i][ExpenseColumn(entity_name)] = entity_id})

\* POST /business-units/, /trucks/, /trailers/, /fuel-stations/
create_entity(model, value) ==
    LET field_name == FieldName(model)
    IN  /\ req' = Request("create_entity", model, NoId)
        /\ IF Len(value) < 1 \/ Len(value) > MaxIdentifierLen(model)
           THEN /\ resp' = Reply(422, <<"validation error">>, NoId, 0)
                /\ UNCHANGED store
           ELSE IF check_duplicate_entity(store, model, field_name, value, NoId)
           THEN /\ resp' = Reply(400, <<Label(model), " with ", field_name,
                                       " already exists">>, NoId, 0)
                /\ UNCHANGED store
           ELSE IF UniqueViolation(store, model, field_name, value, NoId)
           THEN /\ resp' = Reply(400, <<Label(model), " ", field_name,
                                       " must be unique">>, NoId, 0)
                /\ UNCHANGED store
           ELSE LET id == NextRowId(store[model])
                    row == [id |-> id] @@ (field_name :> value)
                IN  /\ id <= MaxId
                    /\ store' = [store EXCEPT ![model] = Append(@, row)]
                    /\ resp' = Reply(201, <<Label(model),
                                           " created successfully">>, id, 0)
        /\ UNCHANGED <<users, now, held, sessions>>

create_business_unit(name) == create_entity("business_units", name)
create_truck(number) == create_entity("trucks", number)
create_trailer(number) == create_entity("trailers", number)
create_fuel_station(name) == create_entity("fuel_stations", name)

\* PUT /business-units/{id}, /trucks/{id}, /trailers/{id}, /fuel-stations/{id}.
\* The handler does not look for duplicates; an UPDATE the uniqueness
\* constraint refuses raises IntegrityError, which is not caught.
update_entity(model, id, value) ==
    LET field_name == FieldName(model)
        i == RowWithId(store[model], id)
    IN  /\ req' = Request("update_entity", model, id)
        /\ IF Len(value) < 1 \/ Len(value) > MaxIdentifierLen(model)
           THEN /\ resp' = Reply(422, <<"validation error">>, NoId, 0)
                /\ UNCHANGED store
           ELSE IF i = 0
           THEN /\ resp' = Reply(404, <<Label(model), " not found">>, NoId, 0)
                /\ UNCHANGED store
           ELSE IF UniqueViolation(store, model, field_name, value, id)
           THEN /\ resp' = Reply(500, <<"Internal Server Error">>, NoId, 0)
                /\ UNCHANGED store
           ELSE /\ store' = [store EXCEPT ![model][i][field_name] = value]
                /\ resp' = Reply(200, <<>>, id, 0)
        /\ UNCHANGED <<users, now, held, sessions>>

\* check_entity_usage_and_delete
check_entity_usage_and_delete(db, model, entity_id, entity_name) ==
    LET count == expense_count(db, entity_name, entity_id)
    IN  IF count > 0
        THEN [db |-> db,
              resp |-> Reply(400, <<"Cannot delete ", entity_name,
                                    ": expense(s) reference it">>,
                             entity_id, count)]
        ELSE [db |-> [db EXCEPT ![model] = DeleteRow(@, entity_id)],
              resp |-> Reply(204, <<>>, entity_id, 0)]

\* DELETE /business-units/{id}, /trucks/{id}, /trailers/{id},
\* /fuel-stations/{id}
delete_entity(model, id) ==
    /\ req' = Request("delete_entity", model, id)
    /\ IF RowWithId(store[model], id) = 0
       THEN /\ resp' = Reply(404, <<Label(model), " not found">>, NoId, 0)
            /\ UNCHANGED store
       ELSE LET done == check_entity_usage_and_delete(store, model, id,
                                                      EntityName(model))
            IN  /\ store' = done.db
                /\ resp' = done.resp
    /\ UNCHANGED <<users, now, held, sessions>>

delete_business_unit(business_unit_id) ==
    delete_entity("business_units", business_unit_id)
delete_truck(truck_id) == delete_entity("trucks", truck_id)
delete_trailer(trailer_id) == delete_entity("trailers", trailer_id)
delete_fuel_station(fuel_station_id) ==
    delete_entity("fuel_stations", fuel_station_id)

(***************************************************************************)
(* Expenses.  A date of a request is what its text is to fromisoformat: a  *)
(* timestamp without offset ("naive"), one with an offset or Z ("aware"),  *)
(* text that is no timestamp ("invalid") or the empty string ("empty"); t  *)
(* is the timestamp in minutes on the clock of now.  A price is a number   *)
(* or text that float() refuses.                                           *)
(***************************************************************************)
Date(kind, t) == [kind |-> kind, t |-> t]
Price(kind, v) == [kind |-> kind, v |-> v]

Has(d, k) == k \in DOMAIN d

\* dict.get(k) is falsy: the key is missing or its text is empty.
Blank == <<" ">>
RECURSIVE IsSpaces(_)
IsSpaces(str) == str = <<>> \/ (Head(str) = " " /\ IsSpaces(Tail(str)))

\* validate_expense_data: the reply of the HTTPException raised, Ok when
\* the data is returned.  Comparing a timestamp that has an offset with
\* datetime.now() raises TypeError, which nothing catches.
validate_expense_data(expense_data, clock) ==
    IF ~Has(expense_data, "date") \/ expense_data.date.kind = "empty"
    THEN Reply(400, <<"Date is required">>, NoId, 0)
    ELSE IF expense_data.date.kind = "invalid"
    THEN Reply(400, <<"Invalid date format">>, NoId, 0)
    ELSE IF expense_data.date.kind = "aware"
    THEN Reply(500, <<"Internal Server Error">>, NoId, 0)
    ELSE IF expense_data.date.t > clock
    THEN Reply(400, <<"Date cannot be in the future">>, NoId, 0)
    ELSE IF ~Has(expense_data, "price")
    THEN Reply(400, <<"Price is required">>, NoId, 0)
    ELSE IF expense_data.price.kind # "number"
    THEN Reply(400, <<"Price must be a valid number">>, NoId, 0)
    ELSE IF expense_data.price.v <= 0
    THEN Reply(400, <<"Price must be greater than 0">>, NoId, 0)
    ELSE IF ~Has(expense_data, "description")
            \/ IsSpaces(expense_data.description)
    THEN Reply(400, <<"Description is required">>, NoId, 0)
    ELSE Ok

\* ExpenseCreate(**expense_dict): company and category are required and
\* taken from their enumerations.
ExpenseCreateOk(expense_dict) ==
    /\ Has(expense_dict, "company") /\ expense_dict.company \in CompanyEnum
    /\ Has(expense_dict, "category")
    /\ expense_dict.category \in ExpenseCategoryEnum

\* ExpenseUpdate(**expense_dict): every field is optional.
ExpenseUpdateOk(expense_dict) ==
    /\ Has(expense_dict, "company") => expense_dict.company \in CompanyEnum
    /\ Has(expense_dict, "category")
          => expense_dict.category \in ExpenseCategoryEnum

\* The reference columns of an expense.
RefColumns == {"business_unit_id", "truck_id", "trailer_id", "fuel_station_id"}
\* The columns a request can set.
DataColumns ==
    {"company", "category", "date", "price", "description"} \cup RefColumns

Field(expense_dict, k, default) ==
    IF Has(expense_dict, k) THEN expense_dict[k] ELSE default

\* Expense(**expense.model_dump()) with the attachment path.
NewExpense(id, d, attachment_path) ==
    [id |-> id, company |-> d.company, category |-> d.category,
     date |-> d.date.t, price |-> d.price.v, description |-> d.description,
     business_unit_id |-> Field(d, "business_unit_id", NoId),
     truck_id |-> Field(d, "truck_id", NoId),
     trailer_id |-> Field(d, "trailer_id", NoId),
     fuel_station_id |-> Field(d, "fuel_station_id", NoId),
     attachment_path |-> attachment_path]

\* file_handler: uploads, the extension check of validate_file and the
\* path save_file returns, unique by the piece of a uuid4 in it.
ALLOWED_EXTENSIONS == {".pdf", ".jpg", ".jpeg", ".png", ".gif", ".bmp", ".tiff"}
NoUpload == [filename |-> "", ext |-> ""]
Uids == 1..2
validate_file(file) ==
    IF file.filename = ""
    THEN Reply(400, <<"No filename provided">>, NoId, 0)
    ELSE IF file.ext \notin ALLOWED_EXTENSIONS
    THEN Reply(400, <<"File type not allowed">>, NoId, 0)
    ELSE Ok
generate_unique_filename(file, uid) ==
    [name |-> file.filename, uid |-> uid, ext |-> file.ext]
\* The file is left where it is.
delete_fileKept(files, path) == files
\* delete_file
delete_file(files, path) == files \ {path}

\* POST /expenses/
create_expense(json, expense_data, attachment, uid) ==
    LET invalid == validate_expense_data(expense_data, now)
        id == NextRowId(store.expenses)
        path == IF attachment = NoUpload THEN NoPath
                ELSE generate_unique_filename(attachment, uid)
    IN  /\ path \notin store.files
        /\ req' = Request("create_expense", "expenses", NoId)
        /\ IF ~json
           THEN /\ resp' = Reply(400, <<"Invalid expense data">>, NoId, 0)
                /\ UNCHANGED store
           ELSE IF invalid # Ok
           THEN /\ resp' = invalid
                /\ UNCHANGED store
           ELSE IF ~ExpenseCreateOk(expense_data)
           THEN /\ resp' = Reply(400, <<"Invalid expense data">>, NoId, 0)
                /\ UNCHANGED store
           ELSE IF attachment # NoUpload /\ validate_file(attachment) # Ok
           THEN /\ resp' = validate_file(attachment)
                /\ UNCHANGED store
           ELSE /\ id <= MaxId
                /\ store' =
                     [store EXCEPT
                        !.expenses = Append(@, NewExpense(id, expense_data, path)),
                        !.files = IF path = NoPath THEN @ ELSE @ \cup {path}]
                /\ resp' = Reply(201, <<"Expense created successfully">>, id, 0)
        /\ UNCHANGED <<users, now, held, sessions>>

\* GET /expenses/{expense_id}
read_expense(expense_id) ==
    /\ req' = Request("read_expense", "expenses", expense_id)
    /\ resp' = IF RowWithId(store.expenses, expense_id) = 0
               THEN Reply(404, <<"Expense not found">>, NoId, 0)
               ELSE Reply(200, <<>>, expense_id, 0)
    /\ UNCHANGED <<users, now, held, sessions, store>>

\* The row after setattr of every field the request set.
UpdatedExpense(row, d, attachment_path) ==
    [k \in DOMAIN row |->
        IF k = "attachment_path" THEN attachment_path
        ELSE IF k \in DataColumns /\ Has(d, k)
        THEN (IF k = "date" THEN d.date.t
              ELSE IF k = "price" THEN d.price.v ELSE d[k])
        ELSE row[k]]

\* PUT /expenses/{expense_id}.  The HTTPException of a refused upload is
\* raised inside the try block and answered by its last handler with 500,
\* after the old file is gone.
update_expense(expense_id, json, expense_data, attachment, uid) ==
    LET i == RowWithId(store.expenses, expense_id)
        invalid == validate_expense_data(expense_data, now)
        old == store.expenses[i].attachment_path
        path == generate_unique_filename(attachment, uid)
    IN  /\ req' = Request("update_expense", "expenses", expense_id)
        /\ attachment # NoUpload => path \notin store.files
        /\ IF i = 0
           THEN /\ resp' = Reply(404, <<"Expense not found">>, NoId, 0)
                /\ UNCHANGED store
           ELSE IF ~json
           THEN /\ resp' = Reply(400, <<"Invalid expense data">>, NoId, 0)
                /\ UNCHANGED store
           ELSE IF invalid # Ok
           THEN /\ resp' = invalid
                /\ UNCHANGED store
           ELSE IF ~ExpenseUpdateOk(expense_data)
           THEN /\ resp' = Reply(400, <<"Invalid expense data">>, NoId, 0)
                /\ UNCHANGED store
           ELSE IF attachment # NoUpload
           THEN IF validate_file(attachment) # Ok
                THEN /\ store' = [store EXCEPT !.files = delete_file(@, old)]
                     /\ resp' = Reply(500, <<"Failed to update expense">>,
                                      NoId, 0)
                ELSE /\ store' =
                          [store EXCEPT
                             !.files = delete_file(@, old) \cup {path},
                             !.expenses[i] =
                                 UpdatedExpense(@, expense_data, path)]
                     /\ resp' = Reply(200, <<"Expense updated successfully">>,
                                      expense_id, 0)
           ELSE IF ~Has(expense_data, "attachment_path")
           THEN /\ store' =
                     [store EXCEPT
                        !.files = delete_file(@, old),
                        !.expenses[i] =
                            UpdatedExpense(@, expense_data, NoPath)]
                /\ resp' = Reply(200, <<"Expense updated successfully">>,
                                 expense_id, 0)
           ELSE /\ store' =
                     [store EXCEPT
                        !.expenses[i] =
                            UpdatedExpense(@, expense_data,
                                           expense_data.attachment_path)]
                /\ resp' = Reply(200, <<"Expense updated successfully">>,
                                 expense_id, 0)
        /\ UNCHANGED <<users, now, held, sessions>>

\* DELETE /expenses/{expense_id}
delete_expense(expense_id) ==
    LET i == RowWithId(store.expenses, expense_id)
    IN  /\ req' = Request("delete_expense", "expenses", expense_id)
        /\ IF i = 0
           THEN /\ resp' = Reply(404, <<"Expense not found">>, NoId, 0)
                /\ UNCHANGED store
           ELSE /\ store' =
                     [store EXCEPT
                        !.files = delete_file(@, store.expenses[i].attachment_path),
                        !.expenses = DeleteRow(@, expense_id)]
                /\ resp' = Reply(200, <<"Expense with ID deleted successfully">>,
                                 expense_id, 0)
        /\ UNCHANGED <<users, now, held, sessions>>

(***************************************************************************)
(* The requests made to the expense router.                                *)
(***************************************************************************)
TooLong == [i \in 1..51 |-> "x"]
EntityValues(model) ==
    CASE model = "business_units" -> {<<"O", "p", "s">>, <<>>}
      [] model = "trucks" -> {<<"T", "1">>, <<"T", "2">>, TooLong}
      [] model = "trailers" -> {<<"R", "1">>}
      [] model = "fuel_stations" -> {<<"S", "h", "e", "l", "l">>}
RowIds == 1..(MaxId + 1)

Without(d, k) == [x \in DOMAIN d \ {k} |-> d[x]]

DayMinutes == 24 * 60
PastExpense ==
    [company |-> "Swatch", category |-> "truck",
     date |-> Date("naive", 0 - DayMinutes), price |-> Price("number", 150),
     description |-> <<"o", "i", "l">>]
ReferringExpense ==
    [company |-> "SWS", category |-> "fuel-diesel",
     date |-> Date("naive", 0), price |-> Price("number", 75),
     description |-> <<"f", "u", "e", "l">>,
     business_unit_id |-> 1, truck_id |-> 1, trailer_id |-> 1,
     fuel_station_id |-> 1]
ValidExpenses == {PastExpense, ReferringExpense}
FutureExpenses ==
    {[PastExpense EXCEPT !.date = Date("naive", 30 * DayMinutes)],
     [PastExpense EXCEPT !.date = Date("naive", 1)]}
InvalidExpenses ==
    {[PastExpense EXCEPT !.date = Date("aware", 0 - DayMinutes)],
     [PastExpense EXCEPT !.date = Date("aware", 30 * DayMinutes)],
     [PastExpense EXCEPT !.date = Date("invalid", 0)],
     [PastExpense EXCEPT !.date = Date("empty", 0)],
     Without(PastExpense, "date"),
     Without(PastExpense, "price"),
     [PastExpense EXCEPT !.price = Price("number", 0)],
     [PastExpense EXCEPT !.price = Price("text", 0)],
     [PastExpense EXCEPT !.description = Blank],
     Without(PastExpense, "description"),
     [PastExpense EXCEPT !.date = Date("aware", 0 - DayMinutes),
                         !.price = Price("number", 0)],
     [PastExpense EXCEPT !.category = "lunch"],
     Without(PastExpense, "company")}
ExpenseInputs == ValidExpenses \cup FutureExpenses \cup InvalidExpenses
\* An update that names no company and keeps the attachment path column
\* in its data, as None.
ExpenseUpdateInputs ==
    ExpenseInputs
        \cup {Without(PastExpense, "company"),
              [attachment_path |-> NoPath] @@ PastExpense}
PdfUpload == [filename |-> "receipt", ext |-> ".pdf"]
ExeUpload == [filename |-> "setup", ext |-> ".exe"]
\* Requests as <<the text is JSON, the data, the upload>>.
ExpenseRequests(inputs) ==
    {<<TRUE, d, NoUpload>> : d \in inputs}
        \cup {<<FALSE, PastExpense, NoUpload>>, <<TRUE, PastExpense, PdfUpload>>,
              <<TRUE, PastExpense, ExeUpload>>,
              <<TRUE, [PastExpense EXCEPT !.price = Price("number", 0)],
                PdfUpload>>}
UidsFor(attachment) == IF attachment = NoUpload THEN {1} ELSE Uids

\* Reference entities and the expenses that refer to them.
NextEntity ==
    \/ \E name \in EntityValues("business_units") : create_business_unit(name)
    \/ \E number \in EntityValues("trucks") : create_truck(number)
    \/ \E number \in EntityValues("trailers") : create_trailer(number)
    \/ \E name \in EntityValues("fuel_stations") : create_fuel_station(name)
    \/ \E model \in Models, id \in RowIds :
          \E value \in EntityValues(model) : update_entity(model, id, value)
    \/ \E id \in RowIds : delete_business_unit(id)
    \/ \E id \in RowIds : delete_truck(id)
    \/ \E id \in RowIds : delete_trailer(id)
    \/ \E id \in RowIds : delete_fuel_station(id)
    \/ \E d \in ValidExpenses : create_expense(TRUE, d, NoUpload, 1)
    \/ \E id \in RowIds : delete_expense(id)

SpecEntity == Init /\ [][NextEntity]_vars

\* Expenses and their attachments.
NextExpense ==
    \/ \E r \in ExpenseRequests(ExpenseInputs) :
          \E uid \in UidsFor(r[3]) : create_expense(r[1], r[2], r[3], uid)
    \/ \E id \in RowIds : read_expense(id)
    \/ \E id \in RowIds, r \in ExpenseRequests(ExpenseUpdateInputs) :
          \E uid \in UidsFor(r[3]) :
              update_expense(id, r[1], r[2], r[3], uid)
    \/ \E id \in RowIds : delete_expense(id)

SpecExpense == Init /\ [][NextExpense]_vars

(***************************************************************************)
(* Properties of the expense router.                                       *)
(***************************************************************************)
\* The expenses whose column for the table holds the id.
Referring(model, id) ==
    {i \in 1..Len(store.expenses) :
        \/ model = "business_units" /\ store.expenses[i].business_unit_id = id
        \/ model = "trucks" /\ store.expenses[i].truck_id = id
        \/ model = "trailers" /\ store.expenses[i].trailer_id = id
        \/ model = "fuel_stations" /\ store.expenses[i].fuel_station_id = id}

Stored(rows, id) == \E i \in 1..Len(rows) : rows[i].id = id

\* C17: a delete request for a stored business unit, truck, trailer or fuel
\* station that some expense refers to is answered 400 with the number of
\* referring expenses and leaves the store as it is; one for a stored entity
\* no expense refers to is answered 204 and removes that entity and nothing
\* else.
C17_DeleteGuarded ==
    [][\A model \in Models, id \in RowIds :
          (delete_entity(model, id) /\ Stored(store[model], id))
          => IF Referring(model, id) # {}
             THEN /\ resp'.status = 400
                  /\ resp'.count = Cardinality(Referring(model, id))
                  /\ resp'.detail[3] = ": expense(s) reference it"
                  /\ store' = store
             ELSE /\ resp'.status = 204
                  /\ ~Stored(store'[model], id)
                  /\ Len(store'[model]) = Len(store[model]) - 1
                  /\ \A m \in (DOMAIN store) \ {model} : store'[m] = store[m]]_vars

\* A delete of truck 1 was refused because two expenses refer to it, and the
\* truck is still stored.
C17_Witness ==
    /\ req.op = "delete_entity"
    /\ req.model = "trucks"
    /\ resp.status = 400
    /\ resp.count = 2
    /\ Stored(store.trucks, 1)
    /\ Cardinality(Referring("trucks", 1)) = 2

Identifiers(model) ==
    {store[model][i][FieldName(model)] : i \in 1..Len(store[model])}

\* C18: the identifiers of the entities of one kind are pairwise distinct at
\* all times, and a create request with a well-formed identifier is answered
\* 400 ("already exists") without adding anything when an entity of the kind
\* has the identifier, and 201 with exactly that entity added otherwise; so
\* the second of two identical create requests is refused.
C18_IdentifiersUnique ==
    /\ [](\A model \in Models :
             Cardinality(Identifiers(model)) = Len(store[model]))
    /\ [][\A model \in Models :
             \A value \in EntityValues(model) :
                (/\ create_entity(model, value)
                 /\ Len(value) >= 1
                 /\ Len(value) <= MaxIdentifierLen(model))
                => IF value \in Identifiers(model)
                   THEN /\ resp'.status = 400
                        /\ resp'.detail[4] = " already exists"
                        /\ store' = store
                   ELSE /\ resp'.status = 201
                        /\ Len(store'[model]) = Len(store[model]) + 1
                        /\ Identifiers(model)' = Identifiers(model) \cup {value}
                        /\ \A m \in (DOMAIN store) \ {model} :
                              store'[m] = store[m]]_vars

\* A create of a truck was refused as a duplicate while two trucks with
\* different numbers are stored.
C18_Witness ==
    /\ req.op = "create_entity"
    /\ req.model = "trucks"
    /\ resp.status = 400
    /\ resp.detail[4] = " already exists"
    /\ Len(store.trucks) = 2
    /\ Cardinality(Identifiers("trucks")) = 2

\* Data that is valid but for where its date lies: a timestamp without
\* offset, a positive price, a description, a company and a category.
OtherwiseValid(d) ==
    /\ Has(d, "date") /\ d.date.kind = "naive"
    /\ Has(d, "price") /\ d.price.kind = "number" /\ d.price.v > 0
    /\ Has(d, "description") /\ ~IsSpaces(d.description)
    /\ Has(d, "company") /\ d.company \in CompanyEnum
    /\ Has(d, "category") /\ d.category \in ExpenseCategoryEnum

Persisted(d) ==
    /\ Len(store'.expenses) = Len(store.expenses) + 1
    /\ store'.expenses[Len(store'.expenses)].date = d.date.t
    /\ store'.expenses[Len(store'.expenses)].id = resp'.id
    /\ SubSeq(store'.expenses, 1, Len(store.expenses)) = store.expenses

\* C19: a create request with otherwise valid data is answered 201 and its
\* expense is stored, whether its date is past or future.
C19_FutureDateAccepted ==
    [][\A d \in ExpenseInputs :
          (create_expense(TRUE, d, NoUpload, 1) /\ OtherwiseValid(d))
          => (resp'.status = 201 /\ Persisted(d))]_vars

\* C20: DELETE of a stored expense is answered 204 and removes
\* it, DELETE of an id that is not stored is answered 404 and changes
\* nothing, and GET, PUT and DELETE of an id that is not stored are
\* answered 404.
C20_DeleteExpenseNoContent ==
    [][/\ \A id \in RowIds :
             delete_expense(id)
             => IF Stored(store.expenses, id)
                THEN /\ resp'.status = 204
                     /\ ~Stored(store'.expenses, id)
                ELSE resp'.status = 404 /\ store' = store
       /\ \A id \in RowIds :
             (/\ ~Stored(store.expenses, id)
              /\ \/ read_expense(id)
                 \/ \E r \in ExpenseRequests(ExpenseUpdateInputs) :
                       \E uid \in UidsFor(r[3]) :
                          update_expense(id, r[1], r[2], r[3], uid))
             => (resp'.status = 404 /\ store' = store)]_vars

(***************************************************************************)
(* The password of an account over its life: a client signs up, logs in,   *)
(* changes its password, sets up its security questions and resets its     *)
(* password with them, next to a second account that only signs up and     *)
(* logs in.                                                                *)
(***************************************************************************)
\* signup: <<email, password, confirm_password, the client keeps the token>>
PasswordSignupInputs ==
    {<<EmailUpperA, PwStrong1, PwStrong1, TRUE>>,
     <<EmailLowerB, PwStrong2, PwStrong2, FALSE>>,
     <<EmailLowerA, PwStrong2, PwStrong2, TRUE>>}

\* reset-verify: <<email, answers, new_password, confirm_password>>
PasswordResetInputs ==
    {<<EmailUpperA, AnswersExact, PwStrong2, PwStrong2>>,
     <<EmailLowerA, AnswersVariant, PwStrong1, PwStrong1>>,
     <<EmailLowerB, AnswersExact, PwStrong1, PwStrong1>>,
     <<EmailLowerA, AnswersWrong1, PwStrong2, PwStrong2>>,
     <<EmailLowerA, AnswersExact, PwWeak, PwWeak>>}

NextPassword ==
    \/ /\ \E in \in PasswordSignupInputs :
            create_user(in[1], in[2], in[3], in[4])
       /\ UNCHANGED others
    \/ /\ \E in \in LoginInputs : login_user(in[1], in[2], FALSE)
       /\ UNCHANGED others
    \/ /\ \E token \in AccountTokens, in \in ChangeInputs :
            change_password(token, in[1], in[2], in[3])
       /\ UNCHANGED others
    \/ /\ setup_security_questions(held, SetupValid)
       /\ UNCHANGED others
    \/ /\ \E in \in PasswordResetInputs :
            verify_password_reset(in[1], in[2], in[3], in[4])
       /\ UNCHANGED others

SpecPassword == Init /\ [][NextPassword]_vars

\* The stored form of an identifier a client types.
Canonical(e) == IF e \in CaseVariantsA THEN EmailLowerA ELSE e

Passwords == {PwStrong1, PwStrong2, PwWeak, PwNoSpecial}

\* The row of the user with the email, 0 when there is none.
RowOf(email) ==
    IF \E i \in 1..Len(users) : users[i].email = email
    THEN CHOOSE i \in 1..Len(users) : users[i].email = email
    ELSE 0

\* C21: the stored hash of a user is written only by a successful signup,
\* password change or reset-verify, and is then a hash of the password that
\* request set and of no other; and a login with identifier e and password
\* p succeeds exactly when a user with email lower(e) exists whose stored
\* hash is a hash of p.  So login accepts exactly the password set last, and
\* the one before it no longer.
C21_LoginLatestPassword ==
    [][/\ \A in \in LoginInputs :
             login_user(in[1], in[2], FALSE)
             => (resp'.status = 200
                   <=> /\ RowOf(Canonical(in[1])) # 0
                       /\ IsHashOf(users[RowOf(Canonical(in[1]))].hashed_password,
                                   in[2]))
       /\ \A in \in PasswordSignupInputs :
             (create_user(in[1], in[2], in[3], in[4]) /\ resp'.status = 201)
             => /\ Len(users') = Len(users) + 1
                /\ users'[Len(users')].email = Canonical(in[1])
                /\ \A p \in Passwords :
                      IsHashOf(users'[Len(users')].hashed_password, p)
                         <=> p = in[2]
       /\ \A token \in AccountTokens, in \in ChangeInputs :
             (change_password(token, in[1], in[2], in[3]) /\ resp'.status = 200)
             => \A p \in Passwords :
                   IsHashOf(users'[UserOf(token)].hashed_password, p)
                      <=> p = in[2]
       /\ \A in \in PasswordResetInputs :
             (verify_password_reset(in[1], in[2], in[3], in[4])
                 /\ resp'.status = 200)
             => \A p \in Passwords :
                   IsHashOf(users'[RowOf(Canonical(in[1]))].hashed_password, p)
                      <=> p = in[4]
       /\ \A i \in 1..Len(users) :
             users'[i].hashed_password # users[i].hashed_password
             => /\ req'.op \in {"change_password", "reset_verify"}
                /\ resp'.status = 200
                /\ \A j \in (1..Len(users)) \ {i} :
                      users'[j].hashed_password = users[j].hashed_password]_vars

\* A login with the password of signup was refused after a reset set
\* another one, with both users registered.
C21_Witness ==
    /\ req.op = "login"
    /\ req.email = EmailUpperA
    /\ resp.status = 401
    /\ Len(users) = 2
    /\ RowOf(EmailLowerA) # 0
    /\ IsHashOf(users[RowOf(EmailLowerA)].hashed_password, PwStrong2)
    /\ users[RowOf(EmailLowerA)].security_question_1 # NULL

\* The data lacks a date or has one that is no timestamp, lacks a price or
\* has one that is no number or not above 0, or lacks a description or has
\* a blank one.
Faulty(d) ==
    \/ ~Has(d, "date") \/ d.date.kind \in {"empty", "invalid"}
    \/ ~Has(d, "price") \/ d.price.kind # "number" \/ d.price.v <= 0
    \/ ~Has(d, "description") \/ IsSpaces(d.description)

\* C22: a create request, or an update request for a stored expense, whose
\* data is faulty is answered 400 and leaves the expenses and the files of
\* the attachment directory as they are.
C22_InvalidDataRejected ==
    [][/\ \A r \in ExpenseRequests(ExpenseInputs) :
             \A uid \in UidsFor(r[3]) :
                (create_expense(r[1], r[2], r[3], uid) /\ r[1] /\ Faulty(r[2]))
                => (resp'.status = 400 /\ store' = store)
       /\ \A id \in RowIds, r \in ExpenseRequests(ExpenseUpdateInputs) :
             \A uid \in UidsFor(r[3]) :
                (/\ update_expense(id, r[1], r[2], r[3], uid)
                 /\ Stored(store.expenses, id)
                 /\ r[1]
                 /\ Faulty(r[2]))
                => (resp'.status = 400 /\ store' = store)]_vars

(***************************************************************************)
(* Properties of the individual security-question update.                  *)
(***************************************************************************)
\* The fields of a row by slot, 0 to 2.
SlotQuestion(user, k) == QuestionTexts(user)[k + 1]
SlotAnswerHash(user, k) == AnswerHashes(user)[k + 1]

\* An individual update of the holder of the token with a well-formed body:
\* when the password counted as supplied is the one the stored hash is of,
\* the slot named by question_index gets the question and a hash of the
\* lower-cased answer and nothing else changes; when it is not, the answer
\* is 400 and nothing changes.
IndividualUpdateChecks(in, supplied) ==
    LET u == UserOf(held)
    IN  IF IsHashOf(users[u].hashed_password, supplied)
        THEN /\ resp'.status = 200
             /\ SlotQuestion(users'[u], in[4]) = in[1]
             /\ IsHashOf(SlotAnswerHash(users'[u], in[4]), Lower(in[2]))
             /\ \A k \in {0, 1, 2} \ {in[4]} :
                   /\ SlotQuestion(users'[u], k) = SlotQuestion(users[u], k)
                   /\ SlotAnswerHash(users'[u], k) = SlotAnswerHash(users[u], k)
             /\ users'[u].hashed_password = users[u].hashed_password
             /\ users'[u].email = users[u].email
             /\ \A i \in (1..Len(users)) \ {u} : users'[i] = users[i]
             /\ Len(users') = Len(users)
        ELSE /\ resp' = Error(400, "Current password is incorrect")
             /\ users' = users

\* C23: an individual update changes the stored state only when the
\* current_password of the request, as supplied, verifies against the stored
\* hash of the caller (otherwise 400 and no change), and then overwrites
\* exactly the slot named by question_index.
C23_IndividualUpdateAsSupplied ==
    [][\A in \in AccountIndividualInputs :
          (/\ update_individual_security_question(held, in[1], in[2], in[3], in[4])
           /\ HeldGood)
          => IndividualUpdateChecks(in, in[3])]_vars

\* What is left of a current_password after the whitespace around it is
\* removed.
Trimmed(p) == IF p = PwPadded THEN PwStrong1 ELSE p

\* C23 amended: an individual update changes the stored state only when
\* the current_password of the request, with the whitespace before and after
\* it removed, verifies against the stored hash of the caller (otherwise 400
\* and no change), and then overwrites exactly the question and answer hash
\* of the slot named by question_index and leaves the other two slots and
\* the password hash unchanged.
C23_IndividualUpdate ==
    [][\A in \in AccountIndividualInputs :
          (/\ update_individual_security_question(held, in[1], in[2], in[3], in[4])
           /\ HeldGood)
          => IndividualUpdateChecks(in, Trimmed(in[3]))]_vars

\* The third slot was written by an individual update while the first two
\* hold what setup stored.
C23_Witness ==
    /\ req.op = "update_individual_security_question"
    /\ resp.status = 200
    /\ users # <<>>
    /\ QuestionTexts(users[1]) = <<QPet, QCity, QCar>>
    /\ IsHashOf(users[1].security_answer_3_hash, <<"r", "e", "d">>)
    /\ IsHashOf(users[1].security_answer_1_hash, AnsBlueLower)

\* C24: after a successful update of a stored expense, with an upload the
\* old file is gone, the upload is saved as a new file and the path names
\* it; without an upload and without an attachment_path key in the data the
\* old file is gone and the path is cleared; without an upload but with the
\* key the files are as before.
C24_UpdateAttachment ==
    [][(req'.op = "update_expense" /\ resp'.status = 200) =>
       \A r \in ExpenseRequests(ExpenseUpdateInputs) :
          \A uid \in UidsFor(r[3]) :
             (/\ update_expense(req'.id, r[1], r[2], r[3], uid)
              /\ Stored(store.expenses, req'.id))
             => LET i == RowWithId(store.expenses, req'.id)
                    old == store.expenses[i].attachment_path
                    new == store'.expenses[i].attachment_path
                IN  IF r[3] # NoUpload
                    THEN /\ new # NoPath
                         /\ new.name = r[3].filename
                         /\ new \notin store.files
                         /\ store'.files = (store.files \ {old}) \cup {new}
                    ELSE IF ~Has(r[2], "attachment_path")
                    THEN /\ new = NoPath
                         /\ store'.files = store.files \ {old}
                    ELSE store'.files = store.files]_vars

\* An update that kept the attachment_path key left the file of the only
\* expense in the directory while the path was set to None.
C24_Witness ==
    /\ req.op = "update_expense"
    /\ resp.status = 200
    /\ Len(store.expenses) = 1
    /\ store.expenses[1].attachment_path = NoPath
    /\ store.files # {}

(***************************************************************************)
(* The analytics of the expense router.  Here the clock is read as the     *)
(* calendar month of datetime.now(), a record of year and month; the       *)
(* handlers change nothing, and their answers are kept by the months they  *)
(* cover.                                                                  *)
(***************************************************************************)
Years == 2023..2026
Months == 1..12
Offsets == <<5, 4, 3, 2, 1, 0>>

YearMonth(year, month) == [year |-> year, month |-> month]

\* The previous month of get_monthly_change.
prev_year_month(clock) ==
    IF clock.month = 1
    THEN YearMonth(clock.year - 1, 12)
    ELSE YearMonth(clock.year, clock.month - 1)

\* The roll into the previous year is made below 0 only.
trend_year_monthStrict(clock, i) ==
    IF clock.month - i < 0
    THEN YearMonth(clock.year - 1, 12 + (clock.month - i))
    ELSE YearMonth(clock.year, clock.month - i)
\* The month of one pass of the trend loop (for i in range(5, -1, -1)).
trend_year_month(clock, i) ==
    IF clock.month - i <= 0
    THEN YearMonth(clock.year - 1, 12 + (clock.month - i))
    ELSE YearMonth(clock.year, clock.month - i)

\* monthly_data, in the order the loop appends to it.
monthly_trend(clock) ==
    [k \in 1..Len(Offsets) |-> trend_year_month(clock, Offsets[k])]

AnalyticsReply(previous, trend) ==
    [status |-> 200, current |-> now, previous |-> previous,
     monthly_trend |-> trend]

\* GET /analytics/monthly-change/{company}
get_monthly_change(company) ==
    /\ req' = [op |-> "get_monthly_change", company |-> company]
    /\ resp' = AnalyticsReply(prev_year_month(now), monthly_trend(now))
    /\ UNCHANGED <<users, now, held, sessions, store>>

\* GET /analytics/top-categories/{company}: the months of the monthly_data
\* of a category.
get_top_categories(company) ==
    /\ req' = [op |-> "get_top_categories", company |-> company]
    /\ resp' = AnalyticsReply(now, monthly_trend(now))
    /\ UNCHANGED <<users, now, held, sessions, store>>

InitAnalytics ==
    /\ users = <<>>
    /\ now \in {YearMonth(y, m) : y \in Years, m \in Months}
    /\ held = NoToken
    /\ req = NoReq
    /\ resp = NoResp
    /\ sessions = NoSessions
    /\ store = EmptyStore

NextAnalytics ==
    \/ \E company \in CompanyEnum : get_monthly_change(company)
    \/ \E company \in CompanyEnum : get_top_categories(company)

SpecAnalytics == InitAnalytics /\ [][NextAnalytics]_vars

\* Months counted from year 0, and back.
MonthIndex(ym) == ym.year * 12 + (ym.month - 1)
MonthOfIndex(n) == YearMonth(n \div 12, (n % 12) + 1)

\* C25: in the answers of the analytics, the trend has six entries, the
\* entry for offset i (5 down to 0) is the calendar month i months before
\* the current one, so the entries are consecutive months ending at the
\* current one, with months 1 to 12 throughout; and the previous month of
\* the percentage change is the calendar month before the current one,
\* December of the year before when the current month is January.
C25_MonthArithmetic ==
    req.op \in {"get_monthly_change", "get_top_categories"}
    => /\ Len(resp.monthly_trend) = 6
       /\ \A k \in 1..6 :
             /\ resp.monthly_trend[k] = MonthOfIndex(MonthIndex(now) - (6 - k))
             /\ resp.monthly_trend[k].month \in Months
       /\ \A k \in 1..5 :
             MonthIndex(resp.monthly_trend[k + 1])
                = MonthIndex(resp.monthly_trend[k]) + 1
       /\ resp.monthly_trend[6] = now
       /\ req.op = "get_monthly_change"
             => /\ resp.previous = MonthOfIndex(MonthIndex(now) - 1)
                /\ now.month = 1
                      => resp.previous = YearMonth(now.year - 1, 12)

\* The answer for a January: the trend starts in August and the previous
\* month is December of the year before.
C25_Witness ==
    /\ req.op = "get_monthly_change"
    /\ now = YearMonth(2024, 1)
    /\ resp.monthly_trend[1] = YearMonth(2023, 8)
    /\ resp.previous = YearMonth(2023, 12)

(***************************************************************************)
(* Invariants of the security questions.                                   *)
(***************************************************************************)
\* C26: in every state each slot of every user has its question text and
\* its answer hash both null or both non-null, and a user all of whose six
\* fields are non-null (has_security_questions) has them non-null after
\* every step.
C26_SlotsWhole ==
    /\ [](\A i \in 1..Len(users) : \A k \in {0, 1, 2} :
             SlotQuestion(users[i], k) # NULL
                <=> SlotAnswerHash(users[i], k) # NULL)
    /\ [][\A i \in 1..Len(users) :
             AllSlotsSet(users[i])
             => (Len(users') >= i /\ AllSlotsSet(users'[i]))]_vars

\* An individual update went through for a user who has all three slots
\* configured, after which the flag is still reported.
C26_Witness ==
    /\ req.op = "update_individual_security_question"
    /\ resp.status = 200
    /\ users # <<>>
    /\ AllSlotsSet(users[1])
    /\ SlotQuestion(users[1], 0) = QPet
    /\ IsHashOf(SlotAnswerHash(users[1], 0), <<"r", "e", "d">>)

\* C27: in every state the question texts a user has configured are
\* pairwise distinct when compared without regard to case.
C27_QuestionsDistinct ==
    \A i \in 1..Len(users) : \A j, k \in {0, 1, 2} :
        (/\ j # k
         /\ SlotQuestion(users[i], j) # NULL
         /\ SlotQuestion(users[i], k) # NULL)
        => Lower(SlotQuestion(users[i], j)) # Lower(SlotQuestion(users[i], k))

\* C28: a setup, a bulk update or an individual update of the holder of the
\* token changes the stored security questions or answers only if the
\* current_password of the request (of each of its questions), with the
\* whitespace around it removed, verifies against the stored password hash
\* of that user.
C28_CurrentPasswordNeeded ==
    [][/\ \A qs \in SetupInputs :
             (/\ \/ setup_security_questions(held, qs)
                 \/ update_security_questions(held, qs)
              /\ HeldGood
              /\ users' # users)
             => \A i \in 1..Len(qs) :
                   IsHashOf(users[UserOf(held)].hashed_password,
                            Trimmed(qs[i].current_password))
       /\ \A in \in AccountIndividualInputs :
             (/\ update_individual_security_question(held, in[1], in[2],
                                                     in[3], in[4])
              /\ HeldGood
              /\ users' # users)
             => IsHashOf(users[UserOf(held)].hashed_password,
                         Trimmed(in[3]))]_vars

\* The table a reference column points into.
TableOf(column) ==
    CASE column = "business_unit_id" -> "business_units"
      [] column = "truck_id" -> "trucks"
      [] column = "trailer_id" -> "trailers"
      [] column = "fuel_station_id" -> "fuel_stations"

\* C29: in every state each reference column of a stored expense that is
\* not null holds the id of a stored entity of its table.
C29_NoDanglingReference ==
    \A i \in 1..Len(store.expenses) : \A column \in RefColumns :
        store.expenses[i][column] # NoId
        => Stored(store[TableOf(column)], store.expenses[i][column])

\* C30: in every state the attachment path of a stored expense, when not
\* null, names a file of the attachment directory, and an update that is
\* not answered 200 leaves the expenses and the files as they are.
C30_AttachmentsExist ==
    /\ [](\A i \in 1..Len(store.expenses) :
             store.expenses[i].attachment_path # NoPath
             => store.expenses[i].attachment_path \in store.files)
    /\ [][(req'.op = "update_expense" /\ resp'.status # 200)
             => store' = store]_vars

====
